---- MODULE Spec2Model ----
(***************************************************************************)
(* A model of the neweden crate: the Universe graph store with its         *)
(* spatial index, the ExtendedUniverse overlay and its builder (with the   *)
(* bridge synthesis), and the PathBuilder / Path navigation engine.        *)
(*                                                                         *)
(* Numbers.  f64 coordinates and distances are modelled by integers, so    *)
(* sqrt(x) * sqrt(x) is x (no rounding is modelled).  Lengths in metres    *)
(* are counted in a scaled unit of LY_IN_M units per lightyear.            *)
(* Lightyears are fixed-point tenths (60 is 6.0 ly) and security ratings   *)
(* fixed-point thousandths (443 is 0.443).  System names are left out:     *)
(* no operation of the crate reads them.                                   *)
(***************************************************************************)
EXTENDS Integers, Sequences, FiniteSets, TLC

VARIABLES
    builder,    \* the UniverseBuilder: [systems, connections]
    universe,   \* None until UniverseBuilder::build, then Some(Universe)
    ext,        \* the ExtendedUniverseBuilders / ExtendedUniverses, by index
    query,      \* the last query made (of a Navigatable or a Path) and what it returned
    pb,         \* None, or Some(PathBuilder): [universe, waypoints, preference]
    path,       \* what PathBuilder::build gave: [status, path, jump_count, cur, segments]
    iters,      \* the PathIterators made by Path::iter, by index
    history     \* the calls made so far: the system records supplied last and
                \* those replaced, the connections in call order (read by the
                \* properties only)

vars == <<builder, universe, ext, query, pb, path, iters, history>>

----------------------------------------------------------------------------
(* Option<T>, HashMap<K, V> *)

None == <<>>
Some(x) == <<x>>

\* HashMap::insert: the value stored under k is replaced.
MapInsert(m, k, v) == [i \in (DOMAIN m) \cup {k} |-> IF i = k THEN v ELSE m[i]]

\* HashMap::get
MapGet(m, k) == IF k \in DOMAIN m THEN Some(m[k]) ELSE None

\* The orders in which HashMap::values() may yield the entries of m.
ValuesOrders(m) ==
    {o \in [1..Cardinality(DOMAIN m) -> DOMAIN m] :
        \A i, j \in DOMAIN o : i # j => o[i] # o[j]}

----------------------------------------------------------------------------
(* types.rs: the entity model *)

\* 1 lightyear in model metres (the crate: 9_460_730_472_580.8 km * 1_000).
LY_IN_M == 20
\* Lightyears are fixed-point with one decimal.
LyScale == 10

\* Security -> SecurityClass: (rating * 10.0).round() / 10.0, then the two
\* thresholds 0.0 and 0.5.  f32::round rounds half away from zero.
Round(x, unit) ==
    IF x >= 0 THEN (x + unit \div 2) \div unit ELSE -(((-x) + unit \div 2) \div unit)

\* From<&Security> for SecurityClass
SecurityClass_from_ref(security) ==
    LET sec == Round(security, 100) IN
    IF sec < 0 THEN "Nullsec"
    ELSE IF sec < 5 THEN "Lowsec"
    ELSE "Highsec"

\* A classification that cuts the rating off after the first decimal.
SecurityClass_from_truncating(security) ==
    LET sec == IF security >= 0 THEN security \div 100 ELSE -((-security) \div 100) IN
    IF sec < 0 THEN "Nullsec"
    ELSE IF sec < 5 THEN "Lowsec"
    ELSE "Highsec"

\* From<Security> for SecurityClass
SecurityClass_from(security) ==
    LET sec == Round(security, 100) IN
    IF sec < 0 THEN "Nullsec"
    ELSE IF sec < 5 THEN "Lowsec"
    ELSE "Highsec"

Stargate(t) ==
    [kind |-> "Stargate", sub |-> t, jump_drive_calibration |-> 0, fuel_conversation |-> 0]
Wormhole(t) ==
    [kind |-> "Wormhole", sub |-> t, jump_drive_calibration |-> 0, fuel_conversation |-> 0]
\* ConnectionType::Bridge(BridgeType): the archetype and its JumpdriveSkills.
Bridge(b) ==
    [kind |-> "Bridge", sub |-> b.ship,
     jump_drive_calibration |-> b.skills.jump_drive_calibration,
     fuel_conversation |-> b.skills.fuel_conversation]

JumpdriveSkills_new(jdc, jfc) == [jump_drive_calibration |-> jdc, fuel_conversation |-> jfc]
Titan(skills) == [ship |-> "Titan", skills |-> skills]
BlackOps(skills) == [ship |-> "BlackOps", skills |-> skills]

\* A range that grows with the fuel conservation level as well.
range_from_base_with_fuel(skills, ly) ==
    ly + (ly * 2 * skills.jump_drive_calibration) \div LyScale
       + (ly * skills.fuel_conversation) \div LyScale

\* ly + (ly * 0.2 * jdc), on tenths of a lightyear.
range_from_base(skills, ly) ==
    ly + (ly * 2 * skills.jump_drive_calibration) \div LyScale

\* Into<Lightyears> for BridgeType
BridgeType_into(b) ==
    IF b.ship = "BlackOps" THEN range_from_base(b.skills, 40)
    ELSE range_from_base(b.skills, 30)

\* From<Lightyears> for Meters
Meters_from_Lightyears(ly) == (ly * LY_IN_M) \div LyScale

\* JumpdriveShip::X(skills)
JumpdriveShip(ship, skills) == [ship |-> ship, skills |-> skills]

\* Into<Lightyears> for JumpdriveShip
JumpdriveShip_into(s) ==
    CASE s.ship = "BlackOps" -> range_from_base(s.skills, 40)
      [] s.ship = "CapitalIndustrial" -> range_from_base(s.skills, 50)
      [] s.ship = "Carrier" -> range_from_base(s.skills, 35)
      [] s.ship = "Dreadnought" -> range_from_base(s.skills, 35)
      [] s.ship = "ForceAuxiliary" -> range_from_base(s.skills, 35)
      [] s.ship = "Jumpfreighter" -> range_from_base(s.skills, 50)
      [] s.ship = "Supercarrier" -> range_from_base(s.skills, 30)
      [] s.ship = "Titan" -> range_from_base(s.skills, 30)

\* An insert that keeps the record the map already holds for the id.
SystemMap_insert_keeping_first(systems, system) ==
    IF system.id \in DOMAIN systems THEN systems
    ELSE MapInsert(systems, system.id, system)

\* From<Vec<System>> for SystemMap and UniverseBuilder::system: insert by id.
SystemMap_insert(systems, system) == MapInsert(systems, system.id, system)

\* A push that replaces the edge the list already holds to the same destination.
AdjacentMap_push_replacing_parallel(connections, connection) ==
    MapInsert(connections, connection.from,
              SelectSeq(IF connection.from \in DOMAIN connections
                        THEN connections[connection.from] ELSE <<>>,
                        LAMBDA c : c.to # connection.to) \o <<connection>>)

\* entry(connection.from).or_insert_with(Vec::new).push(connection)
AdjacentMap_push(connections, connection) ==
    MapInsert(connections, connection.from,
              (IF connection.from \in DOMAIN connections
               THEN connections[connection.from] ELSE <<>>) \o <<connection>>)

\* From<Vec<System>> for SystemMap: later records replace earlier ones.
RECURSIVE SystemMap_fold(_, _)
SystemMap_fold(system_map, systems) ==
    IF systems = <<>> THEN system_map
    ELSE SystemMap_fold(SystemMap_insert(system_map, Head(systems)), Tail(systems))
SystemMap_from(systems) == SystemMap_fold(<<>>, systems)

\* What a list of records supplies last: the records that no later record of
\* the list shares the id of.
Retained(systems) ==
    {systems[i] : i \in {i \in DOMAIN systems :
                             \A j \in DOMAIN systems : j > i => systems[j].id # systems[i].id}}

\* The records of the list that a later record replaced.
Superseded(systems) == {systems[i] : i \in DOMAIN systems} \ Retained(systems)

\* From<Vec<Connection>> for AdjacentMap: grouped by from, in the given order.
RECURSIVE AdjacentMap_fold(_, _)
AdjacentMap_fold(adjacent_map, connections) ==
    IF connections = <<>> THEN adjacent_map
    ELSE AdjacentMap_fold(AdjacentMap_push(adjacent_map, Head(connections)), Tail(connections))
AdjacentMap_from(connections) == AdjacentMap_fold(<<>>, connections)

to_point(system) == system.coordinate

\* A distance that drops the z component.
distance_2_without_z(system, point) ==
    LET d_x == system.coordinate[1] - point[1]
        d_y == system.coordinate[2] - point[2]
    IN  d_x * d_x + d_y * d_y

\* PointDistance for System: the squared distance to the point.
distance_2(system, point) ==
    LET d_x == system.coordinate[1] - point[1]
        d_y == system.coordinate[2] - point[2]
        d_z == system.coordinate[3] - point[3]
    IN  d_x * d_x + d_y * d_y + d_z * d_z

\* Universe::new: the spatial index is bulk-loaded from the map's values, which
\* the HashMap yields in the order `order`; the sequence rtree stands for the
\* index in its traversal order.
Universe_new(systems, connections, order) ==
    [systems |-> systems,
     connections |-> connections,
     rtree |-> [i \in DOMAIN order |-> systems[order[i]]]]

\* rstar::RTree::locate_within_distance: the objects whose distance_2 to the
\* point is at most max_squared_radius, in traversal order.
locate_within_distance(rtree, point, max_squared_radius) ==
    SelectSeq(rtree, LAMBDA s : distance_2(s, point) <= max_squared_radius)

Universe_get_system(u, id) == MapGet(u.systems, id)

Universe_get_connections(u, from) == MapGet(u.connections, from)

\* A range query that answers an unknown origin with an empty sequence.
Universe_get_systems_by_range_empty_for_unknown(u, from, range) ==
    LET system == Universe_get_system(u, from) IN
    IF system = None THEN Some(<<>>)
    ELSE Some(SelectSeq(locate_within_distance(u.rtree, to_point(system[1]), range * range),
                        LAMBDA s : SecurityClass_from(s.security) \in {"Lowsec", "Nullsec"}))

Universe_get_systems_by_range(u, from, range) ==
    LET system == Universe_get_system(u, from) IN
    IF system = None THEN None
    ELSE Some(SelectSeq(locate_within_distance(u.rtree, to_point(system[1]), range * range),
                        LAMBDA s : SecurityClass_from(s.security) \in {"Lowsec", "Nullsec"}))

----------------------------------------------------------------------------
(* types.rs: Navigatable.  A Navigatable is named by an index: 0 is the    *)
(* Universe u[1], k > 0 the ExtendedUniverse e[k], whose field universe is *)
(* the index of the Navigatable it borrows.                                *)

RECURSIVE get_system(_, _, _, _)
get_system(u, e, n, id) ==
    IF n = 0 THEN Universe_get_system(u[1], id)
    ELSE get_system(u, e, e[n].universe, id)

\* An overlay that leaves the systems it has edges from out of the answer.
get_systems_by_range_hiding_own(u, e, n, from, range) ==
    LET r == Universe_get_systems_by_range(u[1], from, range) IN
    IF n = 0 \/ r = None THEN r
    ELSE Some(SelectSeq(r[1], LAMBDA s : s.id \notin DOMAIN e[n].connections))

RECURSIVE get_systems_by_range(_, _, _, _, _)
get_systems_by_range(u, e, n, from, range) ==
    IF n = 0 THEN Universe_get_systems_by_range(u[1], from, range)
    ELSE get_systems_by_range(u, e, e[n].universe, from, range)

\* A merge that puts the overlay's own edges first.
ExtendedUniverse_merge_own_first(a, b) ==
    IF a # None /\ b # None THEN Some(b[1] \o a[1])
    ELSE IF a # None THEN a
    ELSE IF b # None THEN b
    ELSE None

\* A merge that answers with the base's edges alone.
ExtendedUniverse_merge_base_only(a, b) == a

\* The match of ExtendedUniverse::get_connections on (base's edges, own edges).
ExtendedUniverse_merge(a, b) ==
    IF a # None /\ b # None THEN Some(a[1] \o b[1])
    ELSE IF a # None THEN a
    ELSE IF b # None THEN b
    ELSE None

RECURSIVE get_connections(_, _, _, _)
get_connections(u, e, n, from) ==
    IF n = 0 THEN Universe_get_connections(u[1], from)
    ELSE ExtendedUniverse_merge(get_connections(u, e, e[n].universe, from),
                                MapGet(e[n].connections, from))

----------------------------------------------------------------------------
(* The inputs the operations are called with. *)

Local == Stargate("Local")
Regional == Stargate("Regional")
VeryLarge == Wormhole("VeryLarge")
Small == Wormhole("Small")

System(id, coordinate, security) ==
    [id |-> id, coordinate |-> coordinate, security |-> security]
Connection(from, to, type_) == [from |-> from, to |-> to, type_ |-> type_]

\* Systems around an origin at <<0, 0, 0>>: system 2 at exactly 6.0 ly or just
\* beyond it, system 3 at exactly 3.0 ly; the origin in lowsec or in highsec.
Systems ==
    { System(1, <<0, 0, 0>>, 443),    System(1, <<0, 0, 0>>, 946),
      System(2, <<72, 96, 0>>, -240), System(2, <<72, 96, 10>>, 443),
      System(3, <<36, 48, 0>>, 740),  System(3, <<36, 48, 0>>, 120) }

\* The systems of the universes that paths are built in: 2 is lowsec, the
\* others highsec (5 at 0.45, which rounds to 0.5).
PathSystems ==
    << System(1, <<0, 0, 0>>, 946), System(2, <<10, 0, 0>>, 443),
       System(3, <<20, 0, 0>>, 740), System(4, <<10, 10, 0>>, 740),
       System(5, <<20, 10, 0>>, 450) >>

\* An id no system record carries: the one after the largest.
UnknownId ==
    LET ids == {s.id : s \in Systems} \cup {PathSystems[i].id : i \in DOMAIN PathSystems}
    IN  1 + CHOOSE id \in ids : \A other \in ids : other <= id
SystemIds == {s.id : s \in Systems}
\* 3.0 ly and 6.0 ly
Ranges == {Meters_from_Lightyears(30), Meters_from_Lightyears(60)}

BridgeTypes ==
    { Titan(JumpdriveSkills_new(5, 1)), BlackOps(JumpdriveSkills_new(0, 5)) }

BaseConnections == { Connection(1, 2, Local), Connection(1, 3, Regional) }
OverlayConnections == { Connection(1, 3, VeryLarge), Connection(2, 1, Small) }

\* connection() calls on the UniverseBuilder, and calls on one
\* ExtendedUniverseBuilder.
MaxConnections == 2
MaxOverlayCalls == 2
\* The overlays that may be built.
OverlayIds == {1, 2}

----------------------------------------------------------------------------
(* builder.rs: UniverseBuilder *)

UniverseBuilder_new == [systems |-> <<>>, connections |-> <<>>]

UniverseBuilder_system(system) ==
    /\ universe = None
    /\ builder' = [builder EXCEPT !.systems = SystemMap_insert(@, system)]
    /\ history' = [history EXCEPT
                       !.systems = {s \in @ : s.id # system.id} \cup {system},
                       !.superseded =
                           (@ \cup {s \in history.systems : s.id = system.id}) \ {system}]
    /\ UNCHANGED <<iters, universe, ext, query, pb, path>>

UniverseBuilder_connection(connection) ==
    /\ universe = None
    /\ Len(history.base) < MaxConnections
    /\ builder' = [builder EXCEPT !.connections = AdjacentMap_push(@, connection)]
    /\ history' = [history EXCEPT !.base = Append(@, connection)]
    /\ UNCHANGED <<iters, universe, ext, query, pb, path>>

UniverseBuilder_build(order) ==
    /\ universe = None
    /\ order \in ValuesOrders(builder.systems)
    /\ universe' = Some(Universe_new(builder.systems, builder.connections, order))
    /\ UNCHANGED <<iters, builder, ext, query, pb, path, history>>

----------------------------------------------------------------------------
(* builder.rs: ExtendedUniverseBuilder.  ext[k].built tells the builder    *)
(* from the ExtendedUniverse that build() makes of it.                     *)

\* The Navigatables that exist: the Universe and the built ExtendedUniverses.
Navigatables(u, e) ==
    IF u = None THEN {} ELSE {0} \cup {k \in DOMAIN e : e[k].built}

ExtendedUniverseBuilder_new(base) ==
    /\ base \in Navigatables(universe, ext)
    /\ Len(ext) + 1 \in OverlayIds
    /\ \A k \in DOMAIN ext : ext[k].built
    /\ ext' = Append(ext, [universe |-> base, connections |-> <<>>, built |-> FALSE])
    /\ history' = [history EXCEPT !.ext = Append(@, [calls |-> <<>>, pushed |-> <<>>])]
    /\ UNCHANGED <<iters, builder, universe, query, pb, path>>

\* ExtendedUniverseBuilder::connection on the builder's AdjacentMap.
connection(connections, c) == AdjacentMap_push(connections, c)

\* A builder that writes the connection into the Universe's own AdjacentMap too.
ExtendedUniverseBuilder_connection_into_base(k, c) ==
    /\ k \in DOMAIN ext
    /\ ~ext[k].built
    /\ Len(history.ext[k].calls) < MaxOverlayCalls
    /\ ext' = [ext EXCEPT ![k].connections = connection(@, c)]
    /\ universe' = Some([universe[1] EXCEPT !.connections = AdjacentMap_push(@, c)])
    /\ history' = [history EXCEPT ![("ext")][k] =
                      [calls |-> Append(@.calls, [op |-> "connection", from |-> c.from, type_ |-> c.type_]),
                       pushed |-> Append(@.pushed, c)]]
    /\ UNCHANGED <<iters, builder, query, pb, path>>

ExtendedUniverseBuilder_connection(k, c) ==
    /\ k \in DOMAIN ext
    /\ ~ext[k].built
    /\ Len(history.ext[k].calls) < MaxOverlayCalls
    /\ ext' = [ext EXCEPT ![k].connections = connection(@, c)]
    /\ history' = [history EXCEPT ![("ext")][k] =
                      [calls |-> Append(@.calls, [op |-> "connection", from |-> c.from, type_ |-> c.type_]),
                       pushed |-> Append(@.pushed, c)]]
    /\ UNCHANGED <<iters, builder, universe, query, pb, path>>

\* A bridge that makes no connection from the origin to itself.
RECURSIVE bridge_connections_without_origin(_, _, _)
bridge_connections_without_origin(location, type_, ends) ==
    IF ends = <<>> THEN <<>>
    ELSE (IF Head(ends).id = location THEN <<>>
          ELSE <<Connection(location, Head(ends).id, Bridge(type_))>>)
         \o bridge_connections_without_origin(location, type_, Tail(ends))

\* The connections bridge() makes, one for each system of the range query.
RECURSIVE bridge_connections(_, _, _)
bridge_connections(location, type_, ends) ==
    IF ends = <<>> THEN <<>>
    ELSE <<Connection(location, Head(ends).id, Bridge(type_))>>
         \o bridge_connections(location, type_, Tail(ends))

RECURSIVE connection_all(_, _)
connection_all(connections, cs) ==
    IF cs = <<>> THEN connections
    ELSE connection_all(connection(connections, Head(cs)), Tail(cs))

\* unwrap_or(vec![]) of the range query of bridge()
bridge_ends(u, e, n, location, type_) ==
    LET r == get_systems_by_range(u, e, n, location,
                                  Meters_from_Lightyears(BridgeType_into(type_)))
    IN  IF r = None THEN <<>> ELSE r[1]

ExtendedUniverseBuilder_bridge(k, location, type_) ==
    /\ k \in DOMAIN ext
    /\ ~ext[k].built
    /\ Len(history.ext[k].calls) < MaxOverlayCalls
    /\ LET cs == bridge_connections(location, type_,
                     bridge_ends(universe, ext, ext[k].universe, location, type_))
       IN  /\ ext' = [ext EXCEPT ![k].connections = connection_all(@, cs)]
           /\ history' = [history EXCEPT ![("ext")][k] =
                      [calls |-> Append(@.calls, [op |-> "bridge", from |-> location, type_ |-> Bridge(type_)]),
                       pushed |-> @.pushed \o cs]]
    /\ UNCHANGED <<iters, builder, universe, query, pb, path>>

ExtendedUniverseBuilder_build(k) ==
    /\ k \in DOMAIN ext
    /\ ~ext[k].built
    /\ ext' = [ext EXCEPT ![k].built = TRUE]
    /\ UNCHANGED <<iters, builder, universe, query, pb, path, history>>

----------------------------------------------------------------------------
(* Queries through Navigatable *)

Navigatable_get_systems_by_range(n, from, range) ==
    /\ n \in Navigatables(universe, ext)
    /\ query' = Some([op |-> "get_systems_by_range", universe |-> n, from |-> from,
                      range |-> range,
                      result |-> get_systems_by_range(universe, ext, n, from, range)])
    /\ UNCHANGED <<iters, builder, universe, ext, pb, path, history>>

----------------------------------------------------------------------------
(* navigation.rs: Preference, Succ and the search.  A panic (unwrap() on   *)
(* None) is the result Panic, any other result x is Ok(x).                *)

Panic == [panic |-> TRUE]
Ok(x) == [panic |-> FALSE, value |-> x]

\* A cost that takes no account of the security class.
Preference_cost_ignoring_security(u, e, n, preference, to) == Ok(1)

\* A cost whose Highsec arm prices highsec systems at 1000 and the others at 1.
Preference_cost_highsec_inverted(u, e, n, preference, to) ==
    IF preference = "Shortest" THEN Ok(1)
    ELSE LET system == get_system(u, e, n, to) IN
         IF system = None THEN Panic
         ELSE IF SecurityClass_from(system[1].security) = "Highsec"
              THEN Ok(1000) ELSE Ok(1)

\* Preference::cost.  get_system(&to).unwrap() panics when `to` has no record.
Preference_cost(u, e, n, preference, to) ==
    IF preference = "Shortest" THEN Ok(1)
    ELSE LET system == get_system(u, e, n, to) IN
         IF system = None THEN Panic
         ELSE LET class == SecurityClass_from(system[1].security) IN
              IF preference = "Highsec"
              THEN (IF class = "Highsec" THEN Ok(1) ELSE Ok(1000))
              ELSE (IF class = "Highsec" THEN Ok(1000) ELSE Ok(1))

\* Succ: a system id and the connection type it was reached by.  Succ is
\* hashed and compared by id alone.
Succ(id, via) == [id |-> id, via |-> via]

\* Successors in the order in which their systems sit in the spatial index.
RECURSIVE Flatten(_)
Flatten(seqs) == IF seqs = <<>> THEN <<>> ELSE Head(seqs) \o Flatten(Tail(seqs))
successor_in_index_order(u, e, n, preference, s) ==
    LET connections == get_connections(u, e, n, s.id) IN
    IF connections = None THEN Ok(<<>>)
    ELSE Ok(Flatten([i \in DOMAIN u[1].rtree |->
                LET to == SelectSeq(connections[1], LAMBDA c : c.to = u[1].rtree[i].id)
                IN  [j \in DOMAIN to |->
                        [succ |-> Succ(to[j].to, Some(to[j].type_)),
                         cost |-> Preference_cost(u, e, n, preference, to[j].to).value]]]))

\* Successors that all carry the type of the node's first connection.
successor_via_of_first_connection(u, e, n, preference, s) ==
    LET connections == get_connections(u, e, n, s.id) IN
    IF connections = None THEN Ok(<<>>)
    ELSE IF \E i \in DOMAIN connections[1] :
                Preference_cost(u, e, n, preference, connections[1][i].to).panic
         THEN Panic
         ELSE Ok([i \in DOMAIN connections[1] |->
                  [succ |-> Succ(connections[1][i].to, Some(connections[1][1].type_)),
                   cost |-> Preference_cost(u, e, n, preference,
                                            connections[1][i].to).value]])

\* The closure `successor` of PathBuilder::build: the (Succ, Cost) pairs of
\* node s in get_connections order, or Panic.
successor(u, e, n, preference, s) ==
    LET connections == get_connections(u, e, n, s.id) IN
    IF connections = None THEN Ok(<<>>)
    ELSE IF \E i \in DOMAIN connections[1] :
                Preference_cost(u, e, n, preference, connections[1][i].to).panic
         THEN Panic
         ELSE Ok([i \in DOMAIN connections[1] |->
                  [succ |-> Succ(connections[1][i].to, Some(connections[1][i].type_)),
                   cost |-> Preference_cost(u, e, n, preference,
                                            connections[1][i].to).value]])

(* std::collections::BinaryHeap<SmallestHolder>, a max-heap in a vector    *)
(* (here from index 1: the parent of pos is pos \div 2).  SmallestHolder   *)
(* orders by cost alone, reversed: a <= b iff a.cost >= b.cost.            *)
SmallestHolder_le(a, b) == a.cost >= b.cost

RECURSIVE sift_up(_, _, _)
sift_up(data, pos, elt) ==
    IF pos > 1 /\ ~SmallestHolder_le(elt, data[pos \div 2])
    THEN sift_up([data EXCEPT ![pos] = data[pos \div 2]], pos \div 2, elt)
    ELSE [data EXCEPT ![pos] = elt]

BinaryHeap_push(data, item) == sift_up(Append(data, item), Len(data) + 1, item)

RECURSIVE sift_down_to_bottom(_, _, _)
sift_down_to_bottom(data, pos, elt) ==
    LET end == Len(data)
        child == 2 * pos
    IN  IF child + 1 <= end
        THEN LET c == IF SmallestHolder_le(data[child], data[child + 1])
                      THEN child + 1 ELSE child
             IN  sift_down_to_bottom([data EXCEPT ![pos] = data[c]], c, elt)
        ELSE IF child = end
        THEN sift_up([data EXCEPT ![pos] = data[child]], child, elt)
        ELSE sift_up(data, pos, elt)

\* The heap that BinaryHeap::pop leaves (pop returns data[1]).
BinaryHeap_pop(data) ==
    LET rest == SubSeq(data, 1, Len(data) - 1) IN
    IF rest = <<>> THEN <<>> ELSE sift_down_to_bottom(rest, 1, data[Len(data)])

(* pathfinding::directed::dijkstra.  parents is the IndexMap from node to  *)
(* (index of its parent, cost), as the sequence of its entries in          *)
(* insertion order; the start has parent 0.  An entry's key is the Succ    *)
(* that was inserted first: a later, cheaper entry replaces the value only. *)
IndexOf(parents, id) ==
    IF \E i \in DOMAIN parents : parents[i].node.id = id
    THEN CHOOSE i \in DOMAIN parents : parents[i].node.id = id
    ELSE 0

\* A loop that takes a successor of equal cost for the better one, and writes
\* its Succ over the entry's key.
RECURSIVE dijkstra_successors_replacing_on_equal(_, _, _, _, _)
dijkstra_successors_replacing_on_equal(parents, to_see, index, cost, successors) ==
    IF successors = <<>> THEN [parents |-> parents, to_see |-> to_see]
    ELSE LET new_cost == cost + Head(successors).cost
             found == IndexOf(parents, Head(successors).succ.id)
         IN  IF found = 0
             THEN dijkstra_successors_replacing_on_equal(
                      Append(parents, [node |-> Head(successors).succ,
                                       parent |-> index, cost |-> new_cost]),
                      BinaryHeap_push(to_see, [cost |-> new_cost, index |-> Len(parents) + 1]),
                      index, cost, Tail(successors))
             ELSE IF parents[found].cost >= new_cost /\ found # 1
             THEN dijkstra_successors_replacing_on_equal(
                      [parents EXCEPT ![found] = [node |-> Head(successors).succ,
                                                  parent |-> index, cost |-> new_cost]],
                      BinaryHeap_push(to_see, [cost |-> new_cost, index |-> found]),
                      index, cost, Tail(successors))
             ELSE dijkstra_successors_replacing_on_equal(parents, to_see, index, cost,
                                                         Tail(successors))

\* A loop that takes a successor of equal cost for a better one and puts the
\* entry into the heap again.
RECURSIVE dijkstra_successors_pushing_on_equal(_, _, _, _, _)
dijkstra_successors_pushing_on_equal(parents, to_see, index, cost, successors) ==
    IF successors = <<>> THEN [parents |-> parents, to_see |-> to_see]
    ELSE LET new_cost == cost + Head(successors).cost
             found == IndexOf(parents, Head(successors).succ.id)
         IN  IF found = 0
             THEN dijkstra_successors_pushing_on_equal(
                      Append(parents, [node |-> Head(successors).succ,
                                       parent |-> index, cost |-> new_cost]),
                      BinaryHeap_push(to_see, [cost |-> new_cost, index |-> Len(parents) + 1]),
                      index, cost, Tail(successors))
             ELSE IF parents[found].cost >= new_cost
             THEN dijkstra_successors_pushing_on_equal(
                      [parents EXCEPT ![found] = [node |-> @.node, parent |-> index,
                                                  cost |-> new_cost]],
                      BinaryHeap_push(to_see, [cost |-> new_cost, index |-> found]),
                      index, cost, Tail(successors))
             ELSE dijkstra_successors_pushing_on_equal(parents, to_see, index, cost,
                                                       Tail(successors))

\* The loop over the successors of the entry at `index`, reached at `cost`.
RECURSIVE dijkstra_successors(_, _, _, _, _)
dijkstra_successors(parents, to_see, index, cost, successors) ==
    IF successors = <<>> THEN [parents |-> parents, to_see |-> to_see]
    ELSE LET new_cost == cost + Head(successors).cost
             found == IndexOf(parents, Head(successors).succ.id)
         IN  IF found = 0
             THEN dijkstra_successors(
                      Append(parents, [node |-> Head(successors).succ,
                                       parent |-> index, cost |-> new_cost]),
                      BinaryHeap_push(to_see, [cost |-> new_cost, index |-> Len(parents) + 1]),
                      index, cost, Tail(successors))
             ELSE IF parents[found].cost > new_cost
             THEN dijkstra_successors(
                      [parents EXCEPT ![found] = [node |-> @.node, parent |-> index,
                                                  cost |-> new_cost]],
                      BinaryHeap_push(to_see, [cost |-> new_cost, index |-> found]),
                      index, cost, Tail(successors))
             ELSE dijkstra_successors(parents, to_see, index, cost, Tail(successors))

\* The main loop: Panic, or Ok([parents, target_reached, expanded]) with
\* target_reached an index of parents, or 0 when the heap ran empty.  expanded
\* keeps the nodes whose successors were taken, with the cost they were
\* popped at (read by the properties only).
RECURSIVE run_dijkstra(_, _, _, _, _, _, _, _)
run_dijkstra(u, e, n, preference, target, parents, to_see, expanded) ==
    IF to_see = <<>>
    THEN Ok([parents |-> parents, target_reached |-> 0, expanded |-> expanded])
    ELSE LET cost == to_see[1].cost
             index == to_see[1].index
             popped == BinaryHeap_pop(to_see)
             node == parents[index].node
         IN  IF node.id = target
             THEN Ok([parents |-> parents, target_reached |-> index,
                      expanded |-> expanded])
             ELSE IF cost > parents[index].cost
             THEN run_dijkstra(u, e, n, preference, target, parents, popped, expanded)
             ELSE LET successors == successor(u, e, n, preference, node) IN
                  IF successors.panic THEN Panic
                  ELSE LET next == dijkstra_successors(parents, popped, index, cost,
                                                       successors.value)
                       IN  run_dijkstra(u, e, n, preference, target,
                                        next.parents, next.to_see,
                                        Append(expanded, [id |-> node.id, cost |-> cost]))

\* reverse_path: the nodes from the start to the entry at index i.
RECURSIVE reverse_path(_, _)
reverse_path(parents, i) ==
    IF i = 0 THEN <<>>
    ELSE Append(reverse_path(parents, parents[i].parent), parents[i].node)

\* dijkstra(&Succ {id: a, via: None}, successor, |s| s.id == b): Panic,
\* Ok(None) or Ok(Some(the nodes of the path)).
dijkstra(u, e, n, preference, a, b) ==
    LET r == run_dijkstra(u, e, n, preference, b,
                          <<[node |-> Succ(a, None), parent |-> 0, cost |-> 0]>>,
                          <<[cost |-> 0, index |-> 1]>>, <<>>)
    IN  IF r.panic THEN Panic
        ELSE IF r.value.target_reached = 0 THEN Ok(None)
        ELSE Ok(Some(reverse_path(r.value.parents, r.value.target_reached)))

----------------------------------------------------------------------------
(* navigation.rs: PathBuilder and Path *)

NoType == [kind |-> "", sub |-> "", jump_drive_calibration |-> 0, fuel_conversation |-> 0]
\* PathElementInternal
Waypoint(id) == [tag |-> "Waypoint", id |-> id, type_ |-> NoType]
PathSystem(id) == [tag |-> "System", id |-> id, type_ |-> NoType]
PathConnection(type_) == [tag |-> "Connection", id |-> 0, type_ |-> type_]

\* Every system pushed as System, the ends of the segment too.
system_element_never_waypoint(succ, a, b) == PathSystem(succ.id)

\* The element pushed for the system of succ in the segment from a to b.
system_element(succ, a, b) ==
    IF succ.id = a \/ succ.id = b THEN Waypoint(succ.id) ELSE PathSystem(succ.id)

\* The elements pushed for the nodes np of one segment.
RECURSIVE segment_elements(_, _, _)
segment_elements(np, a, b) ==
    IF np = <<>> THEN <<>>
    ELSE (IF Head(np).via # None THEN <<PathConnection(Head(np).via[1])>> ELSE <<>>)
         \o <<system_element(Head(np), a, b)>>
         \o segment_elements(Tail(np), a, b)

\* jump_count += 1 for each node reached by a connection
RECURSIVE segment_jumps(_)
segment_jumps(np) ==
    IF np = <<>> THEN 0
    ELSE (IF Head(np).via # None THEN 1 ELSE 0) + segment_jumps(Tail(np))

\* A result that keeps consecutive equal elements.
dedup_keeping_all(v) == v

\* Vec::dedup: of consecutive equal elements the first is kept.
RECURSIVE dedup(_)
dedup(v) ==
    IF Len(v) <= 1 THEN v
    ELSE IF v[1] = v[2] THEN dedup(Tail(v))
    ELSE <<v[1]>> \o dedup(Tail(v))

Path_new(path_, jump_count, segments) ==
    [status |-> "Some", path |-> path_, jump_count |-> jump_count, cur |-> 0,
     segments |-> segments]
PathNone == [status |-> "None", path |-> <<>>, jump_count |-> 0, cur |-> 0, segments |-> <<>>]
PathPanic == [status |-> "panic", path |-> <<>>, jump_count |-> 0, cur |-> 0, segments |-> <<>>]

\* PathBuilder::build: the loop over waypoints.windows(2) from window i on.
\* segments keeps what each window pushed (read by the properties only).
RECURSIVE build_from(_, _, _, _, _, _, _)
build_from(u, e, b, i, result, jump_count, segments) ==
    IF i + 1 > Len(b.waypoints)
    THEN Path_new(dedup(result), jump_count, segments)
    ELSE LET found == dijkstra(u, e, b.universe, b.preference,
                               b.waypoints[i], b.waypoints[i + 1])
         IN  IF found.panic THEN PathPanic
             ELSE IF found.value = None THEN PathNone
             ELSE LET np == found.value[1]
                      pushed == segment_elements(np, b.waypoints[i], b.waypoints[i + 1])
                  IN  build_from(u, e, b, i + 1, result \o pushed,
                                 jump_count + segment_jumps(np),
                                 Append(segments, pushed))

\* A build that takes a single waypoint for a window from it to itself.
build_single_window(u, e, b) ==
    build_from(u, e, [b EXCEPT !.waypoints = IF Len(@) = 1 THEN @ \o @ ELSE @],
               1, <<>>, 0, <<>>)

build(u, e, b) == build_from(u, e, b, 1, <<>>, 0, <<>>)

\* Path::jumps
Path_jumps(p) == p.jump_count

\* usize::MAX, narrowed to the 31 bits of the integers here; no Vec is as long.
usize_MAX == 2147483647

\* a - b on usize: with overflow checks (a debug build) a negative difference
\* panics, without them (a release build) it wraps.
usize_sub(a, b, overflow_checks) ==
    IF a >= b THEN Ok(a - b)
    ELSE IF overflow_checks THEN Panic
    ELSE Ok(usize_MAX - (b - a) + 1)

\* Vec::get, index from 0
Vec_get(v, index) == IF index < Len(v) THEN Some(v[index + 1]) ELSE None

\* The match of from() and to() on a path element.
element_system(u, e, n, element) ==
    IF element.tag = "Connection" THEN Ok(None)
    ELSE LET system == get_system(u, e, n, element.id) IN
         IF system = None THEN Panic ELSE Ok(system)

\* Path::from of the path p over navigatable n
path_from(u, e, n, p) ==
    LET id == Vec_get(p.path, 0) IN
    IF id = None THEN Ok(None) ELSE element_system(u, e, n, id[1])

\* Path::to
path_to(u, e, n, p, overflow_checks) ==
    LET index == usize_sub(Len(p.path), 1, overflow_checks) IN
    IF index.panic THEN Panic
    ELSE LET id == Vec_get(p.path, index.value) IN
         IF id = None THEN Ok(None) ELSE element_system(u, e, n, id[1])

\* PathElement
PathElement(tag, system, type_) == [tag |-> tag, system |-> system, type_ |-> type_]

\* PathIterator::next at cursor cur: Panic, Ok(None) or Ok(Some(PathElement)).
PathIterator_next_item(u, e, n, p, cur) ==
    IF cur >= Len(p.path) THEN Ok(None)
    ELSE LET element == p.path[cur + 1] IN
         IF element.tag = "Connection"
         THEN Ok(Some(PathElement("Connection", None, element.type_)))
         ELSE LET system == get_system(u, e, n, element.id) IN
              IF system = None THEN Panic
              ELSE Ok(Some(PathElement(element.tag, system, NoType)))

Preferences == {"Shortest", "Highsec", "LowsecAndNullsec"}
\* waypoint() calls on one PathBuilder
MaxWaypoints == 3

PathBuilder_new(n) ==
    /\ pb = None
    /\ n \in Navigatables(universe, ext)
    /\ pb' = Some([universe |-> n, waypoints |-> <<>>, preference |-> "Shortest"])
    /\ UNCHANGED <<iters, builder, universe, ext, query, path, history>>

\* waypoint(system), with a system of the universe
PathBuilder_waypoint(id) ==
    /\ pb # None
    /\ path.status = "unbuilt"
    /\ Len(pb[1].waypoints) < MaxWaypoints
    /\ get_system(universe, ext, pb[1].universe, id) # None
    /\ pb' = Some([pb[1] EXCEPT !.waypoints = Append(@, id)])
    /\ UNCHANGED <<iters, builder, universe, ext, query, path, history>>

PathBuilder_prefer(preference) ==
    /\ pb # None
    /\ path.status = "unbuilt"
    /\ pb' = Some([pb[1] EXCEPT !.preference = preference])
    /\ UNCHANGED <<iters, builder, universe, ext, query, path, history>>

PathBuilder_build ==
    /\ pb # None
    /\ path.status = "unbuilt"
    /\ path' = build(universe, ext, pb[1])
    /\ UNCHANGED <<iters, builder, universe, ext, query, pb, history>>

----------------------------------------------------------------------------
(* Specifications *)

Path_from ==
    /\ pb # None
    /\ path.status = "Some"
    /\ query' = Some([op |-> "from",
                      result |-> path_from(universe, ext, pb[1].universe, path)])
    /\ UNCHANGED <<builder, universe, ext, pb, path, iters, history>>

Path_to(overflow_checks) ==
    /\ pb # None
    /\ path.status = "Some"
    /\ query' = Some([op |-> "to",
                      result |-> path_to(universe, ext, pb[1].universe, path,
                                         overflow_checks)])
    /\ UNCHANGED <<builder, universe, ext, pb, path, iters, history>>

IteratorIds == {1, 2}

\* An iter() that takes up where the newest PathIterator is.
Path_iter_resuming ==
    /\ pb # None
    /\ path.status = "Some"
    /\ Len(iters) + 1 \in IteratorIds
    /\ iters' = Append(iters, [cur |-> IF iters = <<>> THEN 0 ELSE iters[Len(iters)].cur,
                               yielded |-> <<>>, ended |-> FALSE, panicked |-> FALSE,
                               made_at |-> path.cur])
    /\ UNCHANGED <<builder, universe, ext, query, pb, path, history>>

\* An iter() that starts at the cursor of the Path's own Iterator.
Path_iter_at_own_cursor ==
    /\ pb # None
    /\ path.status = "Some"
    /\ Len(iters) + 1 \in IteratorIds
    /\ iters' = Append(iters, [cur |-> path.cur, yielded |-> <<>>, ended |-> FALSE,
                               panicked |-> FALSE, made_at |-> path.cur])
    /\ UNCHANGED <<builder, universe, ext, query, pb, path, history>>

\* Path::iter / IntoIterator for &Path.  yielded, ended and panicked keep what
\* next() has returned, made_at where the Path's own cursor was at the call
\* (read by the properties only).
Path_iter ==
    /\ pb # None
    /\ path.status = "Some"
    /\ Len(iters) + 1 \in IteratorIds
    /\ iters' = Append(iters, [cur |-> 0, yielded |-> <<>>, ended |-> FALSE,
                               panicked |-> FALSE, made_at |-> path.cur])
    /\ UNCHANGED <<builder, universe, ext, query, pb, path, history>>

\* PathIterator::next on the k-th iterator
PathIterator_next(k) ==
    /\ k \in DOMAIN iters
    /\ ~iters[k].panicked
    /\ LET item == PathIterator_next_item(universe, ext, pb[1].universe, path,
                                          iters[k].cur) IN
       iters' = [iters EXCEPT ![k] =
                    IF item.panic THEN [@ EXCEPT !.panicked = TRUE]
                    ELSE IF item.value = None THEN [@ EXCEPT !.ended = TRUE]
                    ELSE [@ EXCEPT !.cur = @ + 1,
                                   !.yielded = Append(@, item.value[1])]]
    /\ UNCHANGED <<builder, universe, ext, query, pb, path, history>>

\* Iterator for Path: next at the Path's own cursor: Panic, Ok(None) or
\* Ok(Some(PathElement)).
Path_next_item(u, e, n, p) ==
    IF p.cur >= Len(p.path) THEN Ok(None)
    ELSE LET element == p.path[p.cur + 1] IN
         IF element.tag = "Connection"
         THEN Ok(Some(PathElement("Connection", None, element.type_)))
         ELSE LET system == get_system(u, e, n, element.id) IN
              IF system = None THEN Panic
              ELSE Ok(Some(PathElement(element.tag, system, NoType)))

\* Iterator for Path: next() on the Path itself
Path_next ==
    /\ pb # None
    /\ path.status = "Some"
    /\ LET item == Path_next_item(universe, ext, pb[1].universe, path) IN
       /\ path' = IF item.panic \/ item.value = None THEN path
                  ELSE [path EXCEPT !.cur = @ + 1]
       /\ query' = Some([op |-> "next", cur |-> path.cur, result |-> item])
    /\ UNCHANGED <<builder, universe, ext, pb, iters, history>>

\* What the iterator of systems() yields until it returns None, from cursor cur.
RECURSIVE systems_from(_, _, _, _, _)
systems_from(u, e, n, p, cur) ==
    LET item == PathIterator_next_item(u, e, n, p, cur) IN
    IF item.panic THEN Panic
    ELSE IF item.value = None THEN Ok(<<>>)
    ELSE LET rest == systems_from(u, e, n, p, cur + 1) IN
         IF rest.panic THEN Panic
         ELSE IF item.value[1].tag \in {"System", "Waypoint"}
         THEN Ok(<<item.value[1].system[1]>> \o rest.value)
         ELSE rest

\* Path::systems, iterated to its end
Path_systems ==
    /\ pb # None
    /\ path.status = "Some"
    /\ query' = Some([op |-> "systems",
                      result |-> systems_from(universe, ext, pb[1].universe, path, 0)])
    /\ UNCHANGED <<builder, universe, ext, pb, path, iters, history>>

----------------------------------------------------------------------------
(* types.rs: SystemId and SystemClass; rules.rs.  An id of the model stands *)
(* for a block of IdBlock consecutive u32 ids: 31_000_000 and 32_000_000    *)
(* and 2^32 are multiples of 64, so that the ids of a block have one class  *)
(* and `as u32` maps blocks to blocks.                                      *)

IdBlock == 64
\* u32::MAX + 1 and i32::MIN, in blocks.
u32_RANGE == 67108864
i32_MIN == -33554432
\* 0..=30999999 and 31000000..=31999999: the first block after each range.
KSpace_end == 31000000 \div IdBlock
WSpace_end == 32000000 \div IdBlock

\* From<u32> for SystemId
SystemId_from_u32(other) == other

\* From<i32> for SystemId: other as u32
SystemId_from_i32(other) == other % u32_RANGE

\* A classification that takes every id outside wormhole space for known space.
SystemClass_from_defaulting(s) ==
    IF s.id >= KSpace_end /\ s.id < WSpace_end THEN Ok("WSpace") ELSE Ok("KSpace")

\* From<System> for SystemClass
SystemClass_from(s) ==
    IF s.id >= 0 /\ s.id < KSpace_end THEN Ok("KSpace")
    ELSE IF s.id >= KSpace_end /\ s.id < WSpace_end THEN Ok("WSpace")
    ELSE Panic

\* From<&System> for SystemClass
SystemClass_from_ref(s) ==
    IF s.id >= 0 /\ s.id < KSpace_end THEN Ok("KSpace")
    ELSE IF s.id >= KSpace_end /\ s.id < WSpace_end THEN Ok("WSpace")
    ELSE Panic

\* A rule that looks at the security class alone.
allows_cynos_by_security_alone(system) ==
    LET sec_class == SecurityClass_from(system.security)
        sys_class == SystemClass_from_ref(system) IN
    IF sys_class.panic THEN Panic
    ELSE Ok(sec_class \in {"Lowsec", "Nullsec"})

\* rules::allows_cynos
allows_cynos(system) ==
    LET sec_class == SecurityClass_from(system.security)
        sys_class == SystemClass_from_ref(system) IN
    IF sys_class.panic THEN Panic
    ELSE IF sys_class.value = "KSpace" /\ sec_class = "Highsec" THEN Ok(FALSE)
    ELSE IF sys_class.value = "KSpace" /\ sec_class = "Lowsec" THEN Ok(TRUE)
    ELSE IF sys_class.value = "KSpace" /\ sec_class = "Nullsec" THEN Ok(TRUE)
    ELSE Ok(FALSE)

\* The conversions, called on their own: one call in a behaviour.
Convert_BridgeType_into(b) ==
    /\ query = None
    /\ query' = Some([op |-> "BridgeType::into", arg |-> b, result |-> BridgeType_into(b)])
    /\ UNCHANGED <<builder, universe, ext, pb, path, iters, history>>

Convert_JumpdriveShip_into(s) ==
    /\ query = None
    /\ query' = Some([op |-> "JumpdriveShip::into", arg |-> s,
                      result |-> JumpdriveShip_into(s)])
    /\ UNCHANGED <<builder, universe, ext, pb, path, iters, history>>

Convert_SecurityClass_from(security) ==
    /\ query = None
    /\ query' = Some([op |-> "SecurityClass::from(Security)", arg |-> security,
                      result |-> SecurityClass_from(security)])
    /\ UNCHANGED <<builder, universe, ext, pb, path, iters, history>>

Convert_SecurityClass_from_ref(security) ==
    /\ query = None
    /\ query' = Some([op |-> "SecurityClass::from(&Security)", arg |-> security,
                      result |-> SecurityClass_from_ref(security)])
    /\ UNCHANGED <<builder, universe, ext, pb, path, iters, history>>

Convert_SystemId_from_i32(other) ==
    /\ query = None
    /\ query' = Some([op |-> "SystemId::from(i32)", arg |-> other,
                      result |-> SystemId_from_i32(other)])
    /\ UNCHANGED <<builder, universe, ext, pb, path, iters, history>>

Convert_SystemClass_from(s) ==
    /\ query = None
    /\ query' = Some([op |-> "SystemClass::from(System)", arg |-> s,
                      result |-> SystemClass_from(s)])
    /\ UNCHANGED <<builder, universe, ext, pb, path, iters, history>>

Convert_SystemClass_from_ref(s) ==
    /\ query = None
    /\ query' = Some([op |-> "SystemClass::from(&System)", arg |-> s,
                      result |-> SystemClass_from_ref(s)])
    /\ UNCHANGED <<builder, universe, ext, pb, path, iters, history>>

rules_allows_cynos(system) ==
    /\ query = None
    /\ query' = Some([op |-> "allows_cynos", arg |-> system,
                      result |-> allows_cynos(system)])
    /\ UNCHANGED <<builder, universe, ext, pb, path, iters, history>>

NoPath == [status |-> "unbuilt", path |-> <<>>, jump_count |-> 0, cur |-> 0, segments |-> <<>>]

Init ==
    /\ builder = UniverseBuilder_new
    /\ universe = None
    /\ ext = <<>>
    /\ query = None
    /\ pb = None
    /\ path = NoPath
    /\ iters = <<>>
    /\ history = [systems |-> {}, superseded |-> {}, base |-> <<>>, ext |-> <<>>]

\* A universe is built from system records and queried by range.
Next ==
    \/ \E s \in Systems : UniverseBuilder_system(s)
    \/ \E o \in ValuesOrders(builder.systems) : UniverseBuilder_build(o)
    \/ \E from \in SystemIds \cup {UnknownId}, r \in Ranges :
           Navigatable_get_systems_by_range(0, from, r)

Spec == Init /\ [][Next]_vars

\* One overlay is built over a universe by bridge() calls.
NextBridge ==
    \/ \E s \in Systems : UniverseBuilder_system(s)
    \/ \E o \in ValuesOrders(builder.systems) : UniverseBuilder_build(o)
    \/ (ext = <<>> /\ ExtendedUniverseBuilder_new(0))
    \/ \E k \in OverlayIds, location \in {1, 2, UnknownId}, type_ \in BridgeTypes :
           ExtendedUniverseBuilder_bridge(k, location, type_)
    \/ \E k \in OverlayIds : ExtendedUniverseBuilder_build(k)

SpecBridge == Init /\ [][NextBridge]_vars

\* The UniverseBuilder after .system(..).system(..) with a lowsec origin and a
\* nullsec system at 6.0 ly; connections and overlays are then added.
OverlaySystems == <<System(1, <<0, 0, 0>>, 443), System(2, <<72, 96, 0>>, -240)>>

InitOverlay ==
    /\ builder = [systems |-> SystemMap_from(OverlaySystems),
                  connections |-> <<>>]
    /\ universe = None
    /\ ext = <<>>
    /\ query = None
    /\ pb = None
    /\ path = NoPath
    /\ iters = <<>>
    /\ history = [systems |-> Retained(OverlaySystems),
                 superseded |-> Superseded(OverlaySystems), base |-> <<>>, ext |-> <<>>]

NextOverlay ==
    \/ \E c \in BaseConnections : UniverseBuilder_connection(c)
    \/ \E o \in ValuesOrders(builder.systems) : UniverseBuilder_build(o)
    \/ \E base \in {0} \cup OverlayIds : ExtendedUniverseBuilder_new(base)
    \/ \E k \in OverlayIds, c \in OverlayConnections : ExtendedUniverseBuilder_connection(k, c)
    \/ \E k \in OverlayIds :
           ExtendedUniverseBuilder_bridge(k, 1, Titan(JumpdriveSkills_new(5, 1)))
    \/ \E k \in OverlayIds : ExtendedUniverseBuilder_build(k)

SpecOverlay == InitOverlay /\ [][NextOverlay]_vars

\* A highsec system 1 with nothing within 3.0 ly, a nullsec system 2 at 6.0 ly
\* and a lowsec system 3 next to it; connections to and from an id that no
\* system record carries.
LookupSystems ==
    << System(1, <<0, 0, 0>>, 946), System(2, <<72, 96, 0>>, -240),
       System(3, <<72, 96, 10>>, 443) >>
LookupConnections == { Connection(2, UnknownId, Local), Connection(UnknownId, 2, Small) }

InitLookup ==
    /\ builder = [systems |-> SystemMap_from(LookupSystems), connections |-> <<>>]
    /\ universe = None
    /\ ext = <<>>
    /\ query = None
    /\ pb = None
    /\ path = NoPath
    /\ iters = <<>>
    /\ history = [systems |-> Retained(LookupSystems),
                  superseded |-> Superseded(LookupSystems), base |-> <<>>, ext |-> <<>>]

NextLookup ==
    \/ \E c \in LookupConnections : UniverseBuilder_connection(c)
    \/ \E o \in ValuesOrders(builder.systems) : UniverseBuilder_build(o)
    \/ \E base \in {0} \cup OverlayIds : ExtendedUniverseBuilder_new(base)
    \/ \E k \in OverlayIds, c \in LookupConnections : ExtendedUniverseBuilder_connection(k, c)
    \/ \E k \in OverlayIds : ExtendedUniverseBuilder_build(k)

SpecLookup == InitLookup /\ [][NextLookup]_vars

\* The connections they are drawn from, in this order: two routes from 1 to 3
\* through highsec (1-4-3, 1-4-5-3) and one through lowsec (1-2-3), a parallel
\* edge, a way back, and an edge to an id that has no system record.
PathConnections ==
    << Connection(1, 4, Local), Connection(1, 2, Local), Connection(1, 2, VeryLarge),
       Connection(2, 3, Local), Connection(4, 3, Local), Connection(4, 5, Local),
       Connection(5, 3, Local), Connection(3, 1, Regional),
       Connection(2, UnknownId, Local) >>

\* Connections of one universe
MaxPathConnections == 5
WaypointIds == {1, 3}

\* The members of connections at the positions in `chosen`, in order.
RECURSIVE Chosen(_, _, _)
Chosen(connections, chosen, i) ==
    IF i > Len(connections) THEN <<>>
    ELSE (IF i \in chosen THEN <<connections[i]>> ELSE <<>>)
         \o Chosen(connections, chosen, i + 1)

\* A universe built from PathSystems and some of PathConnections.
InitPath ==
    /\ \E chosen \in SUBSET (DOMAIN PathConnections) :
           /\ Cardinality(chosen) <= MaxPathConnections
           /\ LET connections == Chosen(PathConnections, chosen, 1) IN
              /\ builder = [systems |-> SystemMap_from(PathSystems),
                            connections |-> AdjacentMap_from(connections)]
              /\ universe = Some(Universe_new(builder.systems, builder.connections,
                                              [i \in DOMAIN PathSystems |-> i]))
              /\ history = [systems |-> Retained(PathSystems),
                            superseded |-> Superseded(PathSystems),
                            base |-> connections, ext |-> <<>>]
    /\ ext = <<>>
    /\ query = None
    /\ pb = None
    /\ path = NoPath
    /\ iters = <<>>

NextPath ==
    \/ \E n \in {0} \cup OverlayIds : PathBuilder_new(n)
    \/ \E id \in WaypointIds : PathBuilder_waypoint(id)
    \/ \E p \in Preferences : PathBuilder_prefer(p)
    \/ PathBuilder_build

SpecPath == InitPath /\ [][NextPath]_vars

\* The connections that the base universe and the overlay of the paths over an
\* ExtendedUniverse are drawn from: the base has the route 1-2-3, a direct
\* edge 1-3 and a way back, the overlay direct and parallel edges and a
\* shortcut back.
ExtPathBase ==
    << Connection(1, 2, Local), Connection(2, 3, Local), Connection(1, 3, Regional),
       Connection(3, 1, Regional) >>
ExtPathOverlay ==
    << Connection(1, 3, VeryLarge), Connection(1, 3, Small), Connection(2, 3, Small),
       Connection(3, 1, VeryLarge) >>

\* A universe built from PathSystems and some of ExtPathBase, extended by an
\* ExtendedUniverse built from some of ExtPathOverlay.
InitPathExt ==
    /\ \E chosen \in SUBSET (DOMAIN ExtPathBase), own \in SUBSET (DOMAIN ExtPathOverlay) :
           LET connections == Chosen(ExtPathBase, chosen, 1)
               pushed == Chosen(ExtPathOverlay, own, 1)
           IN  /\ builder = [systems |-> SystemMap_from(PathSystems),
                             connections |-> AdjacentMap_from(connections)]
               /\ universe = Some(Universe_new(builder.systems, builder.connections,
                                               [i \in DOMAIN PathSystems |-> i]))
               /\ ext = <<[universe |-> 0, connections |-> connection_all(<<>>, pushed),
                           built |-> TRUE]>>
               /\ history = [systems |-> Retained(PathSystems),
                            superseded |-> Superseded(PathSystems),
                            base |-> connections,
                             ext |-> <<[calls |-> [i \in DOMAIN pushed |->
                                                     [op |-> "connection",
                                                      from |-> pushed[i].from,
                                                      type_ |-> pushed[i].type_]],
                                       pushed |-> pushed]>>]
    /\ query = None
    /\ pb = None
    /\ path = NoPath
    /\ iters = <<>>

NextPathExt ==
    \/ \E n \in OverlayIds : PathBuilder_new(n)
    \/ \E id \in WaypointIds : PathBuilder_waypoint(id)
    \/ \E p \in Preferences : PathBuilder_prefer(p)
    \/ PathBuilder_build

SpecPathExt == InitPathExt /\ [][NextPathExt]_vars

\* The connections of universes with loops: a self-loop on 1 and on 2, parallel
\* edges 1 -> 2, edges in both directions between 1 and 2, the cycle 1-2-3-1
\* and an edge to an id without a system record.
GraphConnections ==
    << Connection(1, 1, Local), Connection(1, 2, Local), Connection(1, 2, VeryLarge),
       Connection(2, 1, Local), Connection(2, 2, Small), Connection(2, 3, Local),
       Connection(3, 1, Regional), Connection(2, UnknownId, Local) >>

InitGraph ==
    /\ \E chosen \in SUBSET (DOMAIN GraphConnections) :
           LET connections == Chosen(GraphConnections, chosen, 1) IN
           /\ builder = [systems |-> SystemMap_from(PathSystems),
                         connections |-> AdjacentMap_from(connections)]
           /\ universe = Some(Universe_new(builder.systems, builder.connections,
                                           [i \in DOMAIN PathSystems |-> i]))
           /\ history = [systems |-> Retained(PathSystems),
                         superseded |-> Superseded(PathSystems),
                         base |-> connections, ext |-> <<>>]
    /\ ext = <<>>
    /\ query = None
    /\ pb = None
    /\ path = NoPath
    /\ iters = <<>>

NextGraph ==
    \/ PathBuilder_new(0)
    \/ \E id \in WaypointIds : PathBuilder_waypoint(id)
    \/ \E p \in Preferences : PathBuilder_prefer(p)
    \/ PathBuilder_build

SpecGraph == InitGraph /\ [][NextGraph]_vars

\* The connections of the universes whose paths are read: those of
\* PathConnections for 1-2, 2-3, 3-1 and the edge to the unknown id.
UseConnections == {2, 4, 8, 9}

InitUse ==
    /\ \E chosen \in SUBSET UseConnections :
           LET connections == Chosen(PathConnections, chosen, 1) IN
           /\ builder = [systems |-> SystemMap_from(PathSystems),
                         connections |-> AdjacentMap_from(connections)]
           /\ universe = Some(Universe_new(builder.systems, builder.connections,
                                           [i \in DOMAIN PathSystems |-> i]))
           /\ history = [systems |-> Retained(PathSystems),
                            superseded |-> Superseded(PathSystems),
                            base |-> connections, ext |-> <<>>]
    /\ ext = <<>>
    /\ query = None
    /\ pb = None
    /\ path = NoPath
    /\ iters = <<>>

\* One universe with the route 1-2-3, whose paths are read through the Path's
\* own Iterator and through iter() and systems().
InitIter ==
    /\ LET connections == Chosen(PathConnections, {2, 4}, 1) IN
       /\ builder = [systems |-> SystemMap_from(PathSystems),
                     connections |-> AdjacentMap_from(connections)]
       /\ universe = Some(Universe_new(builder.systems, builder.connections,
                                       [i \in DOMAIN PathSystems |-> i]))
       /\ history = [systems |-> Retained(PathSystems),
                     superseded |-> Superseded(PathSystems),
                     base |-> connections, ext |-> <<>>]
    /\ ext = <<>>
    /\ query = None
    /\ pb = None
    /\ path = NoPath
    /\ iters = <<>>

NextIter ==
    \/ PathBuilder_new(0)
    \/ \E id \in WaypointIds : PathBuilder_waypoint(id)
    \/ PathBuilder_build
    \/ Path_next
    \/ Path_iter
    \/ \E k \in IteratorIds : PathIterator_next(k)
    \/ Path_systems

SpecIter == InitIter /\ [][NextIter]_vars

NextUse ==
    \/ PathBuilder_new(0)
    \/ \E id \in WaypointIds : PathBuilder_waypoint(id)
    \/ \E p \in Preferences : PathBuilder_prefer(p)
    \/ PathBuilder_build
    \/ Path_from
    \/ \E overflow_checks \in BOOLEAN : Path_to(overflow_checks)
    \/ Path_iter
    \/ \E k \in IteratorIds : PathIterator_next(k)

SpecUse == InitUse /\ [][NextUse]_vars

\* Skill levels, the ships, and the ratings -1.0 to 1.0 in thousandths.
MaxLevel == 5
Levels == 0 .. MaxLevel
Ships == {"BlackOps", "CapitalIndustrial", "Carrier", "Dreadnought", "ForceAuxiliary",
          "Jumpfreighter", "Supercarrier", "Titan"}
Ratings == (-10 * 100) .. (10 * 100)
\* i32 values and u32 ids (in blocks) at the ends of their ranges and on both
\* sides of the limits of known space and wormhole space.
Int32s == {i32_MIN, -WSpace_end, -1, 0, KSpace_end - 1, KSpace_end, WSpace_end - 1,
           WSpace_end, -i32_MIN - 1}
ClassIds ==
    {0, 1, KSpace_end - 1, KSpace_end, KSpace_end + 1, WSpace_end - 1, WSpace_end,
     WSpace_end + 1, u32_RANGE - 1} \cup {SystemId_from_i32(other) : other \in Int32s}
ClassRatings == {-10 * 100, -49, 0, 443, 449, 450, 946}
ClassSystems == {System(id, <<0, 0, 0>>, security) : id \in ClassIds, security \in ClassRatings}

NextConvert ==
    \/ \E jdc \in Levels, jfc \in Levels :
           \/ Convert_BridgeType_into(Titan(JumpdriveSkills_new(jdc, jfc)))
           \/ Convert_BridgeType_into(BlackOps(JumpdriveSkills_new(jdc, jfc)))
    \/ \E ship \in Ships, jdc \in Levels, jfc \in Levels :
           Convert_JumpdriveShip_into(JumpdriveShip(ship, JumpdriveSkills_new(jdc, jfc)))
    \/ \E security \in Ratings : Convert_SecurityClass_from(security)
    \/ \E security \in Ratings : Convert_SecurityClass_from_ref(security)
    \/ \E other \in Int32s : Convert_SystemId_from_i32(other)
    \/ \E s \in ClassSystems : Convert_SystemClass_from(s)
    \/ \E s \in ClassSystems : Convert_SystemClass_from_ref(s)
    \/ \E s \in ClassSystems : rules_allows_cynos(s)

SpecConvert == Init /\ [][NextConvert]_vars

----------------------------------------------------------------------------
(* Properties *)

Range(f) == {f[i] : i \in DOMAIN f}

\* The straight-line distance from system s to system o is at most r.
EuclideanWithin(s, o, r) ==
    (s.coordinate[1] - o.coordinate[1]) * (s.coordinate[1] - o.coordinate[1])
    + (s.coordinate[2] - o.coordinate[2]) * (s.coordinate[2] - o.coordinate[2])
    + (s.coordinate[3] - o.coordinate[3]) * (s.coordinate[3] - o.coordinate[3])
    <= r * r

\* The last query was a range query from a known origin.
RangeQueried ==
    /\ query # None
    /\ query[1].op = "get_systems_by_range"
    /\ query[1].result # None

\* C1: get_systems_by_range(origin, r) omits no system within the radius: every
\* system of the universe at distance <= r of the origin, the origin included
\* and whatever its security rating, is in the returned sequence.
C1_NoSystemOmitted ==
    RangeQueried =>
        LET u == universe[1]
            origin == u.systems[query[1].from]
        IN  \A s \in Range(u.systems) :
                EuclideanWithin(s, origin, query[1].range)
                    => s \in Range(query[1].result[1])

\* C2: every system that get_systems_by_range(origin, r) returns is a system of
\* the universe at distance <= r of the origin, and none is returned twice.
C2_NoFalsePositive ==
    RangeQueried =>
        LET u == universe[1]
            origin == u.systems[query[1].from]
            result == query[1].result[1]
        IN  /\ \A i \in DOMAIN result :
                /\ result[i] \in Range(u.systems)
                /\ EuclideanWithin(result[i], origin, query[1].range)
            /\ \A i, j \in DOMAIN result : i # j => result[i].id # result[j].id

\* A range query returned two systems and left out one that lies beyond the radius.
C2_Witness ==
    /\ RangeQueried
    /\ Len(query[1].result[1]) = 2
    /\ \E s \in Range(universe[1].systems) :
           ~EuclideanWithin(s, universe[1].systems[query[1].from], query[1].range)

\* base + base * 0.2 * calibration, in tenths of a lightyear.
EffectiveRange(type_) ==
    IF type_.sub = "Titan" THEN 30 + 6 * type_.jump_drive_calibration
    ELSE 40 + 8 * type_.jump_drive_calibration

\* C3: the overlay built by bridge(origin, type) holds a Bridge edge origin -> s
\* for every system s within the archetype's effective range of the origin, and
\* no Bridge edge to a system beyond that range.
C3_BridgeEdgesExactlyWithinRange ==
    \A k \in DOMAIN ext :
        \A i \in DOMAIN history.ext[k].calls :
            LET call == history.ext[k].calls[i]
                u == universe[1]
                edges == IF call.from \in DOMAIN ext[k].connections
                         THEN ext[k].connections[call.from] ELSE <<>>
            IN  (call.op = "bridge" /\ call.from \in DOMAIN u.systems) =>
                    \A s \in Range(u.systems) :
                        EuclideanWithin(s, u.systems[call.from],
                                        (EffectiveRange(call.type_) * LY_IN_M) \div LyScale)
                        <=> \E j \in DOMAIN edges :
                                edges[j].to = s.id /\ edges[j].type_ = call.type_

\* The connections pushed, in call order, into the Universe and then into each
\* overlay from the innermost to n.
RECURSIVE PushedThrough(_)
PushedThrough(n) ==
    IF n = 0 THEN history.base
    ELSE PushedThrough(ext[n].universe) \o history.ext[n].pushed

ConnectionsFrom(cs, id) == SelectSeq(cs, LAMBDA c : c.from = id)

\* C4: ExtendedUniverse::get_connections(id) returns the base's edges for id
\* followed by the overlay's own, each in insertion order (with nested overlays:
\* innermost base first, then each overlay outwards), and None when there are none.
C4_UnionInOrder ==
    \A n \in Navigatables(universe, ext) \ {0} :
        \A id \in SystemIds \cup {UnknownId} :
            LET expected == ConnectionsFrom(PushedThrough(n), id) IN
            get_connections(universe, ext, n, id)
                = IF expected = <<>> THEN None ELSE Some(expected)

\* An overlay nested on an overlay, where base and both overlays hold edges of
\* system 1, only an overlay holds edges of system 2 and nothing holds edges of 3.
C4_Witness ==
    /\ Len(ext) = 2
    /\ ext[2].built
    /\ ext[2].universe = 1
    /\ 1 \in DOMAIN universe[1].connections
    /\ 1 \in DOMAIN ext[1].connections
    /\ 1 \in DOMAIN ext[2].connections
    /\ get_connections(universe, ext, 0, 2) = None
    /\ get_connections(universe, ext, 2, 2) # None
    /\ get_connections(universe, ext, 2, 3) = None

\* C5: building an overlay leaves every existing Navigatable as it was: the
\* Universe and each built overlay answer get_connections, get_system and
\* get_systems_by_range after any step as before it.
C5_BaseUnchanged ==
    [][\A n \in Navigatables(universe, ext) :
           \A id \in SystemIds \cup {UnknownId} :
               /\ get_connections(universe', ext', n, id) = get_connections(universe, ext, n, id)
               /\ get_system(universe', ext', n, id) = get_system(universe, ext, n, id)
               /\ \A r \in Ranges :
                      get_systems_by_range(universe', ext', n, id, r)
                          = get_systems_by_range(universe, ext, n, id, r)]_vars

\* Two overlays over the same Universe, each with edges of its own for system 2,
\* of which the Universe has none.
C5_Witness ==
    /\ Len(ext) = 2
    /\ ext[1].universe = 0
    /\ ext[2].universe = 0
    /\ ext[1].built
    /\ 2 \in DOMAIN ext[1].connections
    /\ 1 \in DOMAIN ext[2].connections
    /\ 2 \notin DOMAIN ext[2].connections
    /\ 2 \notin DOMAIN universe[1].connections


----------------------------------------------------------------------------
(* Routes: what the documentation says of built paths, stated over the     *)
(* connections that the path's navigatable lists.                          *)

PathIds == {PathSystems[i].id : i \in DOMAIN PathSystems} \cup {UnknownId}
Unreached == 1000 * 1000

Built == pb # None /\ path.status # "unbuilt"
Returned == pb # None /\ path.status = "Some"

EdgesFrom(n, x) ==
    LET c == get_connections(universe, ext, n, x) IN IF c = None THEN <<>> ELSE c[1]
HasEdge(n, x, y) == \E i \in DOMAIN EdgesFrom(n, x) : EdgesFrom(n, x)[i].to = y

IsHighsec(n, id) ==
    LET system == get_system(universe, ext, n, id) IN
    system # None /\ SecurityClass_from(system[1].security) = "Highsec"
IsLowOrNull(n, id) ==
    LET system == get_system(universe, ext, n, id) IN
    system # None /\ SecurityClass_from(system[1].security) \in {"Lowsec", "Nullsec"}

\* The documented cost of a hop into `to`.
HopCost(n, preference, to) ==
    CASE preference = "Shortest" -> 1
      [] preference = "Highsec" -> IF IsHighsec(n, to) THEN 1 ELSE 1000
      [] preference = "LowsecAndNullsec" -> IF IsLowOrNull(n, to) THEN 1 ELSE 1000

\* The ids that directed routes from the ids of S lead to; with highsecOnly,
\* by hops into Highsec systems alone.
RECURSIVE Reach(_, _, _)
Reach(n, S, highsecOnly) ==
    LET T == S \cup {y \in PathIds : /\ \E x \in S : HasEdge(n, x, y)
                                     /\ highsecOnly => IsHighsec(n, y)}
    IN  IF T = S THEN S ELSE Reach(n, T, highsecOnly)
Reachable(n, a, b) == b \in Reach(n, {a}, FALSE)
AllHighsecRoute(n, a, b) == b \in Reach(n, {a}, TRUE)

Min(S) == CHOOSE x \in S : \A y \in S : x <= y

\* The least total cost of a directed route from a to b, by k rounds of
\* relaxing every edge.
RECURSIVE Relax(_, _, _, _)
Relax(edges, cost, dist, k) ==
    IF k = 0 THEN dist
    ELSE LET next == [y \in PathIds |->
                         Min({dist[y]} \cup {dist[x] + cost[y] :
                                               x \in {x \in PathIds : <<x, y>> \in edges}})]
         IN  IF next = dist THEN dist ELSE Relax(edges, cost, next, k - 1)
MinCost(n, preference, a, b) ==
    LET edges == {<<x, y>> \in PathIds \X PathIds : HasEdge(n, x, y)}
        cost == [y \in PathIds |-> HopCost(n, preference, y)]
    IN  Relax(edges, cost, [y \in PathIds |-> IF y = a THEN 0 ELSE Unreached],
              Cardinality(PathIds))[b]

Hops(p) == (Len(p) - 1) \div 2
Alternates(p) ==
    /\ Len(p) % 2 = 1
    /\ \A i \in DOMAIN p : IF i % 2 = 1 THEN p[i].tag \in {"Waypoint", "System"}
                                        ELSE p[i].tag = "Connection"
\* p is a directed route from a to b
IsRoute(n, p, a, b) ==
    /\ Alternates(p)
    /\ p[1].id = a /\ p[Len(p)].id = b
    /\ \A h \in 1 .. Hops(p) : HasEdge(n, p[2 * h - 1].id, p[2 * h + 1].id)
RECURSIVE RouteCost(_, _, _, _)
RouteCost(n, preference, p, h) ==
    IF h = 0 THEN 0
    ELSE RouteCost(n, preference, p, h - 1) + HopCost(n, preference, p[2 * h + 1].id)
LowHops(n, p) ==
    Cardinality({i \in DOMAIN p : p[i].tag = "Connection" /\ ~IsHighsec(n, p[i + 1].id)})

RECURSIVE SumHops(_)
SumHops(segments) ==
    IF segments = <<>> THEN 0 ELSE Hops(Head(segments)) + SumHops(Tail(segments))
RECURSIVE SumLen(_)
SumLen(segments) ==
    IF segments = <<>> THEN 0 ELSE Len(Head(segments)) + SumLen(Tail(segments))
RECURSIVE SumMinHops(_, _, _)
SumMinHops(n, w, i) ==
    IF i + 1 > Len(w) THEN 0
    ELSE MinCost(n, "Shortest", w[i], w[i + 1]) + SumMinHops(n, w, i + 1)
\* The segments in order, each boundary waypoint once.
RECURSIVE Joined(_)
Joined(segments) ==
    IF segments = <<>> THEN <<>>
    ELSE IF Len(segments) = 1 THEN segments[1]
    ELSE Joined(SubSeq(segments, 1, Len(segments) - 1)) \o Tail(segments[Len(segments)])

Windows == IF pb = None THEN {} ELSE 1 .. (Len(pb[1].waypoints) - 1)

\* C6: build returns None exactly when some consecutive pair of waypoints has
\* no directed route between them, under every preference, and returns a path
\* when every pair has one; a None result carries no partial path.
C6_NoneIffUnreachable ==
    Built =>
        LET n == pb[1].universe
            w == pb[1].waypoints
        IN  /\ (\E i \in Windows : ~Reachable(n, w[i], w[i + 1])) => path.status = "None"
            /\ (\A i \in Windows : Reachable(n, w[i], w[i + 1])) => path.status = "Some"
            /\ path.status = "None" => path.path = <<>> /\ path.jump_count = 0

\* C7: each segment of a returned path is a directed route between its two
\* waypoints whose total cost under the preference is the least there is; under
\* Shortest that is the least number of hops, and under no preference does a
\* path have fewer jumps than the least number of hops.
C7_SegmentsMinimal ==
    Returned =>
        LET n == pb[1].universe
            w == pb[1].waypoints
            preference == pb[1].preference
            least == SumMinHops(n, w, 1)
        IN  /\ DOMAIN path.segments = Windows
            /\ \A i \in Windows :
                  LET segment == path.segments[i] IN
                  /\ IsRoute(n, segment, w[i], w[i + 1])
                  /\ RouteCost(n, preference, segment, Hops(segment))
                        = MinCost(n, preference, w[i], w[i + 1])
            /\ path.jump_count >= least
            /\ preference = "Shortest" => path.jump_count = least

\* A Highsec path that takes more jumps than the shortest route has.
C7_Witness ==
    /\ Returned
    /\ pb[1].preference = "Highsec"
    /\ Len(pb[1].waypoints) = 2
    /\ path.jump_count > SumMinHops(pb[1].universe, pb[1].waypoints, 1)

\* C8: where every consecutive pair of waypoints has a route through Highsec
\* systems alone, the path returned under Highsec has no more hops into Lowsec
\* or Nullsec systems than the path returned under Shortest for the same
\* waypoints.
C8_HighsecAvoidsLowsec ==
    (/\ Returned
     /\ pb[1].preference = "Highsec"
     /\ \A i \in Windows :
            AllHighsecRoute(pb[1].universe, pb[1].waypoints[i], pb[1].waypoints[i + 1]))
    => LET shortest == build(universe, ext, [pb[1] EXCEPT !.preference = "Shortest"])
       IN  /\ shortest.status = "Some"
           /\ LowHops(pb[1].universe, path.path) <= LowHops(pb[1].universe, shortest.path)

\* A Highsec path with fewer hops into lowsec than the Shortest path has.
C8_Witness ==
    /\ Returned
    /\ pb[1].preference = "Highsec"
    /\ Windows # {}
    /\ \A i \in Windows :
           AllHighsecRoute(pb[1].universe, pb[1].waypoints[i], pb[1].waypoints[i + 1])
    /\ LowHops(pb[1].universe, path.path)
          < LowHops(pb[1].universe,
                    build(universe, ext, [pb[1] EXCEPT !.preference = "Shortest"]).path)

\* C9: a returned, non-empty path alternates system and connection elements,
\* begins with the first waypoint and ends with the last, both as Waypoint;
\* in each segment the two ends are Waypoint and every system between them is
\* System; jumps() is the number of Connection elements, one less than the
\* number of system elements.
C9_Alternates ==
    (Returned /\ path.path # <<>>) =>
        LET p == path.path
            w == pb[1].waypoints
        IN  /\ Alternates(p)
            /\ p[1] = Waypoint(w[1])
            /\ p[Len(p)] = Waypoint(w[Len(w)])
            /\ \A k \in DOMAIN path.segments :
                  \A i \in DOMAIN path.segments[k] :
                      i % 2 = 1 =>
                          path.segments[k][i].tag =
                              IF i = 1 \/ i = Len(path.segments[k])
                              THEN "Waypoint" ELSE "System"
            /\ path.jump_count = Cardinality({i \in DOMAIN p : p[i].tag = "Connection"})
            /\ path.jump_count
                  = Cardinality({i \in DOMAIN p : p[i].tag \in {"Waypoint", "System"}}) - 1

\* A path over three waypoints with a System element inside a segment.
C9_Witness ==
    /\ Returned
    /\ Len(pb[1].waypoints) = 3
    /\ \E i \in DOMAIN path.path : path.path[i].tag = "System"
    /\ path.jump_count >= 4

\* C10: over three or more waypoints the returned path is the segments in
\* order with each boundary waypoint once, nothing else removed, and its jump
\* count is the sum of the segments' jump counts.
C10_SegmentsConcatenated ==
    (Returned /\ Len(pb[1].waypoints) >= 3) =>
        /\ path.path = Joined(path.segments)
        /\ Len(path.path) = SumLen(path.segments) - (Len(path.segments) - 1)
        /\ path.jump_count = SumHops(path.segments)

\* Two segments of at least one hop each, joined at the middle waypoint.
C10_Witness ==
    /\ Returned
    /\ Len(pb[1].waypoints) = 3
    /\ pb[1].waypoints[1] # pb[1].waypoints[2]
    /\ pb[1].waypoints[2] # pb[1].waypoints[3]
    /\ \E i \in 2 .. (Len(path.path) - 1) :
           /\ path.path[i] = Waypoint(pb[1].waypoints[2])
           /\ path.path[i - 1].tag = "Connection"
           /\ path.path[i + 1].tag = "Connection"

\* The least number of hops from a to b over the edges, a set of <<from, to>>.
HopsOver(edges, a, b) ==
    Relax(edges, [y \in PathIds |-> 1],
          [y \in PathIds |-> IF y = a THEN 0 ELSE Unreached], Cardinality(PathIds))[b]
\* The edges added to navigatable n and to everything beneath it.
UnionEdges(n) ==
    {<<PushedThrough(n)[i].from, PushedThrough(n)[i].to>> : i \in DOMAIN PushedThrough(n)}
RECURSIVE SumHopsOver(_, _, _)
SumHopsOver(edges, w, i) ==
    IF i + 1 > Len(w) THEN 0
    ELSE HopsOver(edges, w[i], w[i + 1]) + SumHopsOver(edges, w, i + 1)
\* The overlay's own edges from a to c, in insertion order.
OwnDirect(n, a, c) == SelectSeq(history.ext[n].pushed, LAMBDA x : x.from = a /\ x.to = c)
BaseDirect(n, a, c) ==
    SelectSeq(PushedThrough(ext[n].universe), LAMBDA x : x.from = a /\ x.to = c)

C12_FewWaypointsEmptyPath ==
    (Built /\ Len(pb[1].waypoints) <= 1) =>
        /\ path.status = "Some"
        /\ path.segments = <<>>
        /\ path.path = <<>>
        /\ Path_jumps(path) = 0

\* One waypoint, a preference that reads security classes, and a graph with an
\* edge to an id that has no record.
C12_Witness ==
    /\ Built
    /\ Len(pb[1].waypoints) = 1
    /\ pb[1].preference = "Highsec"
    /\ \E i \in DOMAIN history.base : history.base[i].to = UnknownId
    /\ path.status = "Some"

\* The system-bearing elements of a path, and the record of a system id.
SystemBearing(p) == SelectSeq(p, LAMBDA x : x.tag \in {"Waypoint", "System"})
RecordOf(id) == CHOOSE i \in DOMAIN PathSystems : PathSystems[i].id = id

\* C13: from() returns the first and to() the last system-bearing element of
\* the path; on a path with no elements both return None, and neither fails.
C13_FromToFirstLast ==
    (query # None /\ query[1].op \in {"from", "to"}) =>
        LET r == query[1].result
            bearing == SystemBearing(path.path)
        IN  /\ ~r.panic
            /\ path.path = <<>> => r.value = None
            /\ path.path # <<>> =>
                  r.value = Some(PathSystems[RecordOf(
                                IF query[1].op = "from" THEN bearing[1].id
                                ELSE bearing[Len(bearing)].id)])

\* What iterating the path is to yield: its elements in order, the systems as
\* their records.
RECURSIVE Elements(_)
Elements(p) ==
    IF p = <<>> THEN <<>>
    ELSE <<IF Head(p).tag = "Connection"
           THEN PathElement("Connection", None, Head(p).type_)
           ELSE PathElement(Head(p).tag, Some(PathSystems[RecordOf(Head(p).id)]), NoType)>>
         \o Elements(Tail(p))

\* C14: every iterator got from iter() yields the path's elements from the
\* first on, in order, returns None after exactly as many elements as the path
\* holds and never fails; iterating leaves the path, its jump count and the
\* segments searched as build returned them.
C14_IterRestartable ==
    \A k \in DOMAIN iters :
        /\ ~iters[k].panicked
        /\ iters[k].cur <= Len(path.path)
        /\ iters[k].yielded = SubSeq(Elements(path.path), 1, iters[k].cur)
        /\ iters[k].ended => iters[k].yielded = Elements(path.path)
        /\ path = build(universe, ext, pb[1])

\* A second iterator that has run to its end while the first is part way, on
\* a path of two jumps.
C14_Witness ==
    /\ Len(iters) = 2
    /\ Path_jumps(path) = 2
    /\ iters[1].cur = 2
    /\ ~iters[1].ended
    /\ iters[2].ended
    /\ Len(iters[2].yielded) = 5

\* Orders in which HashMap::values() may hand the systems to the spatial index
\* when the universe is built again: the rotations of the id order and of its
\* reverse.
RebuildOrders ==
    LET n == Len(PathSystems) IN
    {[i \in 1 .. n |-> ((i + k - 1) % n) + 1] : k \in 0 .. (n - 1)}
        \cup {[i \in 1 .. n |-> n - ((i + k - 1) % n)] : k \in 0 .. (n - 1)}

RangeConverted == query # None /\ query[1].op \in {"BridgeType::into", "JumpdriveShip::into"}
Converted(op, arg) ==
    IF op = "BridgeType::into" THEN BridgeType_into(arg) ELSE JumpdriveShip_into(arg)

\* C16: the range of a Titan is 3.0 + 3.0 * 0.2 * calibration and that of a
\* BlackOps 4.0 + 4.0 * 0.2 * calibration lightyears, whatever the fuel
\* conservation level; BridgeType and JumpdriveShip give the same range for
\* the same archetype and skills; Titan with calibration 5 and fuel 1 has 6.0.
\* (Ranges in tenths of a lightyear, the equations scaled by ten.)
C16_RangeFormula ==
    RangeConverted =>
        LET arg == query[1].arg
            range == query[1].result
            jdc == arg.skills.jump_drive_calibration
        IN  /\ arg.ship = "Titan" => 10 * range = 10 * 30 + 30 * 2 * jdc
            /\ arg.ship = "BlackOps" => 10 * range = 10 * 40 + 40 * 2 * jdc
            /\ \A jfc \in Levels :
                   Converted(query[1].op, [arg EXCEPT !.skills.fuel_conversation = jfc])
                       = range
            /\ arg.ship \in {"Titan", "BlackOps"} =>
                   BridgeType_into(arg) = range /\ JumpdriveShip_into(arg) = range
            /\ arg = Titan(JumpdriveSkills_new(5, 1)) => range = 60

\* The bridge of a Titan with calibration 5 and fuel 1: 6.0 lightyears.
C16_Witness ==
    /\ query # None
    /\ query[1].op = "BridgeType::into"
    /\ query[1].arg = Titan(JumpdriveSkills_new(5, 1))
    /\ query[1].result = 60

ClassConverted ==
    query # None /\ query[1].op \in {"SecurityClass::from(Security)",
                                     "SecurityClass::from(&Security)"}
\* The class of a rating that has been rounded to t tenths.
ClassOfTenths(t) == IF t < 0 THEN "Nullsec" ELSE IF t < 5 THEN "Lowsec" ELSE "Highsec"
Abs(x) == IF x < 0 THEN -x ELSE x
\* The tenths nearest to a rating in thousandths (two of them half way).
NearestTenths(r) ==
    {t \in -11 .. 11 : \A other \in -11 .. 11 : Abs(r - 100 * t) <= Abs(r - 100 * other)}

\* C19: the class of a rating is that of the rating rounded to the nearest
\* tenth: below 0.0 Nullsec, below 0.5 Lowsec, else Highsec, with 0.45 Highsec
\* and 0.443 Lowsec; it depends on the rating alone, and the conversions from
\* Security and from &Security agree.
C19_RoundThenClassify ==
    ClassConverted =>
        LET r == query[1].arg IN
        /\ \E t \in NearestTenths(r) : query[1].result = ClassOfTenths(t)
        /\ r = 450 => query[1].result = "Highsec"
        /\ r = 443 => query[1].result = "Lowsec"
        /\ query[1].result = SecurityClass_from(r)
        /\ query[1].result = SecurityClass_from_ref(r)

\* The rating 0.45 converted from &Security.
C19_Witness ==
    /\ query # None
    /\ query[1].op = "SecurityClass::from(&Security)"
    /\ query[1].arg = 450
    /\ query[1].result = "Highsec"

\* C20: of the ratings -1.0 to 1.0, those from 0.45 up are Highsec, those from
\* 0.0 up to 0.45 Lowsec and all those below 0.0 Nullsec.
C20_ClassByRating ==
    ClassConverted =>
        LET r == query[1].arg IN
        query[1].result = IF r >= 450 THEN "Highsec"
                          ELSE IF r >= 0 THEN "Lowsec"
                          ELSE "Nullsec"

----------------------------------------------------------------------------
(* Records that share an id *)

\* The lists of at most MaxSupplied records of Systems.
MaxSupplied == 3
SupplyLists == UNION {[1 .. n -> Systems] : n \in 0 .. MaxSupplied}

RangeSeen ==
    IF query # None /\ query[1].op = "get_systems_by_range" /\ query[1].result # None
    THEN {query[1].result[1][i] : i \in DOMAIN query[1].result[1]}
    ELSE {}

\* C17: a universe built from records of which several share an id holds one
\* system per id, get_system(id) returns the record supplied last, the spatial
\* index holds exactly the retained records, one entry each, and a range query
\* returns no replaced record; SystemMap::from keeps, of any list that supplies
\* the same records last, the same map.
C17_LastRecordWins ==
    universe # None =>
        LET u == universe[1]
            ids == {s.id : s \in history.systems} IN
        /\ DOMAIN u.systems = ids
        /\ \A s \in history.systems : get_system(universe, ext, 0, s.id) = Some(s)
        /\ \A id \in (SystemIds \cup {UnknownId}) \ ids :
               get_system(universe, ext, 0, id) = None
        /\ Len(u.rtree) = Cardinality(ids)
        /\ {u.rtree[i] : i \in DOMAIN u.rtree} = history.systems
        /\ RangeSeen \cap (history.superseded \ history.systems) = {}
        /\ RangeSeen \subseteq history.systems
        /\ query = None =>
               \A list \in SupplyLists :
                   Retained(list) = history.systems => SystemMap_from(list) = u.systems

\* A universe in which a record replaced another of the same id, and a range
\* query from that id that returns the replacing record.
C17_Witness ==
    /\ universe # None
    /\ \E old \in history.superseded, s \in history.systems :
           /\ old.id = s.id
           /\ old.coordinate # s.coordinate
           /\ s \in RangeSeen
    /\ \E old \in history.superseded, s \in history.systems :
           /\ old.id = s.id
           /\ query[1].from = s.id

----------------------------------------------------------------------------
(* The outgoing edges of a system *)

\* C18: in a universe built from a list of connections, get_connections(id)
\* returns the connections whose from is id, in the order they were inserted
\* in, parallel edges included, and None rather than an empty sequence when
\* there is none; every connection returned has from = id.
C18_ConnectionsByFrom ==
    universe # None =>
        \A id \in SystemIds \cup PathIds \cup {UnknownId} :
            LET expected == ConnectionsFrom(history.base, id)
                result == get_connections(universe, ext, 0, id) IN
            /\ result = IF expected = <<>> THEN None ELSE Some(expected)
            /\ result # None =>
                   /\ result[1] # <<>>
                   /\ \A i \in DOMAIN result[1] : result[1][i].from = id

\* A universe whose connection list holds two edges of different types between
\* the same pair, an edge of another system between two edges of one system,
\* and no edge out of some system.
C18_Witness ==
    /\ universe # None
    /\ \E i, j \in DOMAIN history.base :
           /\ i < j
           /\ history.base[i].from = history.base[j].from
           /\ history.base[i].to = history.base[j].to
           /\ history.base[i].type_ # history.base[j].type_
           /\ Len(get_connections(universe, ext, 0, history.base[i].from)[1]) >= 2
    /\ \E i, j, k \in DOMAIN history.base :
           /\ i < j
           /\ j < k
           /\ history.base[i].from = history.base[k].from
           /\ history.base[j].from # history.base[i].from
    /\ \E id \in PathIds : get_connections(universe, ext, 0, id) = None

----------------------------------------------------------------------------
(* Known space and wormhole space *)

\* A limit of real ids, in blocks.
InBlocks(id) == id \div IdBlock

SystemClassConverted ==
    query # None /\ query[1].op \in {"SystemClass::from(System)",
                                     "SystemClass::from(&System)"}

\* C21: the class of a system depends on its id alone: KSpace below
\* 31,000,000, WSpace from there to below 32,000,000, and a panic from
\* 32,000,000 up, which is where every negative i32 is converted to; the
\* conversions from System and from &System agree.
C21_ClassById ==
    /\ InBlocks(31000000) * IdBlock = 31000000
    /\ InBlocks(32000000) * IdBlock = 32000000
    /\ SystemClassConverted =>
           LET s == query[1].arg
               class == query[1].result IN
           /\ s.id < InBlocks(31000000) => ~class.panic /\ class.value = "KSpace"
           /\ s.id >= InBlocks(31000000) /\ s.id < InBlocks(32000000) =>
                  ~class.panic /\ class.value = "WSpace"
           /\ s.id >= InBlocks(32000000) => class.panic
           /\ \A security \in ClassRatings :
                  SystemClass_from([s EXCEPT !.security = security]) = class
           /\ SystemClass_from(s) = class
           /\ SystemClass_from_ref(s) = class
    /\ query # None /\ query[1].op = "SystemId::from(i32)" =>
           LET id == query[1].result IN
           /\ id \in 0 .. (u32_RANGE - 1)
           /\ query[1].arg >= 0 => id = query[1].arg
           /\ query[1].arg < 0 =>
                  /\ id = u32_RANGE + query[1].arg
                  /\ id >= InBlocks(32000000)
                  /\ \A security \in ClassRatings :
                         /\ SystemClass_from(System(id, <<0, 0, 0>>, security)).panic
                         /\ SystemClass_from_ref(System(id, <<0, 0, 0>>, security)).panic

\* The class of a system whose id was converted from the i32 -1: a panic.
C21_Witness ==
    /\ SystemClassConverted
    /\ query[1].arg.id = SystemId_from_i32(-1)
    /\ query[1].arg.id > WSpace_end
    /\ query[1].result.panic

\* C30: allows_cynos(system) is true when the system is in known space and its
\* security class is Lowsec or Nullsec, false for a Highsec system of known
\* space and for every system of wormhole space, and a panic for an id of
\* 32,000,000 or above.
C30_CynosInLowAndNullOfKnownSpace ==
    query # None /\ query[1].op = "allows_cynos" =>
        LET s == query[1].arg
            allowed == query[1].result
            class == SecurityClass_from(s.security) IN
        /\ s.id >= InBlocks(32000000) <=> allowed.panic
        /\ s.id < InBlocks(32000000) =>
               (allowed.value <=> (s.id < InBlocks(31000000)
                                   /\ class \in {"Lowsec", "Nullsec"}))
        /\ s.id < InBlocks(31000000) /\ class = "Highsec" => allowed = Ok(FALSE)
        /\ s.id >= InBlocks(31000000) /\ s.id < InBlocks(32000000) => allowed = Ok(FALSE)

\* A lowsec system in the first block of wormhole space: no cyno.
C30_Witness ==
    /\ query # None
    /\ query[1].op = "allows_cynos"
    /\ query[1].arg.id = KSpace_end
    /\ SecurityClass_from(query[1].arg.security) = "Lowsec"
    /\ query[1].result = Ok(FALSE)

----------------------------------------------------------------------------
(* Lookups through overlays and of unknown ids *)

LookupIds == {LookupSystems[i].id : i \in DOMAIN LookupSystems} \cup {UnknownId}

\* C22: through every overlay, get_system(id) and get_systems_by_range(id, r)
\* return what the overlay's base and the Universe return, for every id and
\* radius, whatever edges the overlay holds.
C22_OverlayDelegatesSystems ==
    \A n \in Navigatables(universe, ext) \ {0} :
        \A id \in LookupIds :
            /\ get_system(universe, ext, n, id) = Universe_get_system(universe[1], id)
            /\ get_system(universe, ext, n, id)
                   = get_system(universe, ext, ext[n].universe, id)
            /\ \A r \in Ranges :
                   /\ get_systems_by_range(universe, ext, n, id, r)
                          = Universe_get_systems_by_range(universe[1], id, r)
                   /\ get_systems_by_range(universe, ext, n, id, r)
                          = get_systems_by_range(universe, ext, ext[n].universe, id, r)

\* An overlay on an overlay, both with edges from system 2 to the unknown id
\* and from the unknown id, where the range query from 2 returns two systems.
C22_Witness ==
    /\ Len(ext) = 2
    /\ ext[2].built
    /\ ext[2].universe = 1
    /\ \A k \in {1, 2} : DOMAIN ext[k].connections = {2, UnknownId}
    /\ \E r \in Ranges :
           Len(get_systems_by_range(universe, ext, 2, 2, r)[1]) = 2

Known(id) == \E s \in history.systems : s.id = id

\* C23 as stated: for an id with no system record, get_system, get_connections
\* and get_systems_by_range return None; for a known origin
\* get_systems_by_range returns a sequence.
C23_UnknownIdAbsent ==
    \A n \in Navigatables(universe, ext) :
        \A id \in LookupIds :
            /\ ~Known(id) =>
                   /\ get_system(universe, ext, n, id) = None
                   /\ get_connections(universe, ext, n, id) = None
                   /\ \A r \in Ranges : get_systems_by_range(universe, ext, n, id, r) = None
            /\ Known(id) =>
                   \A r \in Ranges : get_systems_by_range(universe, ext, n, id, r) # None

\* C23 amended: get_connections returns None for an id that no connection was
\* recorded from, and the connections recorded from it otherwise, with or
\* without a system record; the rest as stated.
C23_AbsentWithoutRecord ==
    \A n \in Navigatables(universe, ext) :
        \A id \in LookupIds :
            /\ ConnectionsFrom(PushedThrough(n), id) = <<>> =>
                   get_connections(universe, ext, n, id) = None
            /\ ConnectionsFrom(PushedThrough(n), id) # <<>> =>
                   get_connections(universe, ext, n, id)
                       = Some(ConnectionsFrom(PushedThrough(n), id))
            /\ ~Known(id) =>
                   /\ get_system(universe, ext, n, id) = None
                   /\ \A r \in Ranges : get_systems_by_range(universe, ext, n, id, r) = None
            /\ Known(id) =>
                   /\ get_system(universe, ext, n, id) # None
                   /\ \A r \in Ranges : get_systems_by_range(universe, ext, n, id, r) # None

\* A universe with a connection recorded from the unknown id, none from
\* system 1, and an empty answer to the range query from system 1.
C23_Witness ==
    /\ universe # None
    /\ get_system(universe, ext, 0, UnknownId) = None
    /\ get_connections(universe, ext, 0, UnknownId) # None
    /\ get_connections(universe, ext, 0, 1) = None
    /\ \E r \in Ranges : get_systems_by_range(universe, ext, 0, 1, r) = Some(<<>>)
    /\ \A r \in Ranges : get_systems_by_range(universe, ext, 0, UnknownId, r) = None

----------------------------------------------------------------------------
(* What a bridge() call adds *)

\* C25: a bridge(origin, type) call appends to the overlay's connections of
\* origin one connection {origin, s, Bridge(type)} for each system s that the
\* base's get_systems_by_range(origin, range of type) returns, in that order,
\* the origin included when it is returned; the connections the overlay held
\* stay in place before them, a second call adds them again, and an unknown
\* origin adds nothing.
C25_BridgeAppendsRangeQuery ==
    [][\A k \in DOMAIN ext :
           (/\ Len(history'.ext[k].calls) = Len(history.ext[k].calls) + 1
            /\ history'.ext[k].calls[Len(history'.ext[k].calls)].op = "bridge") =>
               LET call == history'.ext[k].calls[Len(history'.ext[k].calls)]
                   ends == get_systems_by_range(universe, ext, ext[k].universe, call.from,
                               (EffectiveRange(call.type_) * LY_IN_M) \div LyScale)
                   added == IF ends = None THEN <<>>
                            ELSE [i \in DOMAIN ends[1] |->
                                     Connection(call.from, ends[1][i].id, call.type_)]
               IN  /\ get_system(universe, ext, ext[k].universe, call.from) = None =>
                          added = <<>> /\ ext'[k].connections = ext[k].connections
                   /\ \A id \in SystemIds \cup {UnknownId} :
                          LET old == IF id \in DOMAIN ext[k].connections
                                     THEN ext[k].connections[id] ELSE <<>>
                              new == old \o (IF id = call.from THEN added ELSE <<>>)
                          IN  MapGet(ext'[k].connections, id)
                                  = IF new = <<>> THEN None ELSE Some(new)
                   /\ history'.ext[k].pushed = history.ext[k].pushed \o added]_vars

\* An overlay after two bridge() calls from system 1 of the same type, each of
\* which added an edge from 1 to itself and one to another system.
C25_Witness ==
    \E k \in DOMAIN ext :
        /\ Len(history.ext[k].calls) = 2
        /\ \A i \in {1, 2} : history.ext[k].calls[i].op = "bridge"
                             /\ history.ext[k].calls[i].from = 1
        /\ history.ext[k].calls[1].type_ = history.ext[k].calls[2].type_
        /\ 1 \in DOMAIN ext[k].connections
        /\ Len(ext[k].connections[1]) = 4
        /\ ext[k].connections[1][1] = ext[k].connections[1][3]
        /\ ext[k].connections[1][2] = ext[k].connections[1][4]
        /\ \E i \in {1, 2} : ext[k].connections[1][i].to = 1

----------------------------------------------------------------------------
(* The connections a path reports *)

\* The steps of a path: the positions of its Connection elements.
Steps(p) == {i \in DOMAIN p : p[i].tag = "Connection"}
Parallel(n, x, y) == SelectSeq(EdgesFrom(n, x), LAMBDA c : c.to = y)

\* C24: where a returned path steps from X to Y, the Connection it reports is
\* the type of the first edge from X to Y in get_connections(X) order: of
\* parallel edges the one inserted first, and a base edge before an overlay's.
C24_FirstParallelEdge ==
    Returned =>
        LET n == pb[1].universe IN
        \A i \in Steps(path.path) :
            /\ i > 1
            /\ i < Len(path.path)
            /\ LET x == path.path[i - 1].id
                   y == path.path[i + 1].id
               IN  /\ Parallel(n, x, y) # <<>>
                   /\ path.path[i].type_ = Parallel(n, x, y)[1].type_
                   /\ n # 0 =>
                          path.path[i].type_ =
                              IF BaseDirect(n, x, y) # <<>> THEN BaseDirect(n, x, y)[1].type_
                              ELSE OwnDirect(n, x, y)[1].type_

\* A path from 1 to 3 and back over an overlay: the base has one edge 1 -> 3
\* and the overlay two more, the overlay has two edges 3 -> 1 and the base none.
C24_Witness ==
    /\ Returned
    /\ pb[1].universe # 0
    /\ pb[1].waypoints = <<1, 3, 1>>
    /\ Len(BaseDirect(pb[1].universe, 1, 3)) = 1
    /\ Len(OwnDirect(pb[1].universe, 1, 3)) = 2
    /\ BaseDirect(pb[1].universe, 3, 1) = <<>>
    /\ Len(OwnDirect(pb[1].universe, 3, 1)) = 1
    /\ Len(Parallel(pb[1].universe, 1, 3)) = 3
    /\ path.path = <<Waypoint(1), PathConnection(Regional), Waypoint(3),
                     PathConnection(VeryLarge), Waypoint(1)>>

\* C26: in a returned path every Connection element stands between two
\* systems X and Y, and get_connections(X) holds a connection to Y of the
\* type reported.
C26_StepsAreEdges ==
    Returned =>
        \A i \in Steps(path.path) :
            /\ i > 1
            /\ i < Len(path.path)
            /\ path.path[i - 1].tag \in {"Waypoint", "System"}
            /\ path.path[i + 1].tag \in {"Waypoint", "System"}
            /\ \E j \in DOMAIN EdgesFrom(pb[1].universe, path.path[i - 1].id) :
                   LET c == EdgesFrom(pb[1].universe, path.path[i - 1].id)[j] IN
                   /\ c.to = path.path[i + 1].id
                   /\ c.type_ = path.path[i].type_

\* A path 3 -> 1 -> 2 -> 3 over an overlay, where the base and the overlay
\* each have an edge 3 -> 1 and an edge 2 -> 3, of different types.
C26_Witness ==
    /\ Returned
    /\ pb[1].universe # 0
    /\ pb[1].preference = "LowsecAndNullsec"
    /\ Len(Parallel(pb[1].universe, 2, 3)) = 2
    /\ Len(Parallel(pb[1].universe, 3, 1)) = 2
    /\ path.path = <<Waypoint(3), PathConnection(Regional), Waypoint(1),
                     PathConnection(Local), PathSystem(2), PathConnection(Local),
                     Waypoint(3)>>

----------------------------------------------------------------------------
(* Connections to ids without a system record *)

\* C27: build and an iteration over all elements of its result end without a
\* panic, whatever the preference, also when an edge leads to an id that has
\* no system record: the result is a path or None.
C27_DanglingEdgeHarmless ==
    Built =>
        /\ path.status \in {"Some", "None"}
        /\ \A cur \in 0 .. Len(path.path) :
               ~PathIterator_next_item(universe, ext, pb[1].universe, path, cur).panic

----------------------------------------------------------------------------
(* The end of the search *)

\* The search of window i of the builder's waypoints.
Search(i) ==
    run_dijkstra(universe, ext, pb[1].universe, pb[1].preference, pb[1].waypoints[i + 1],
                 <<[node |-> Succ(pb[1].waypoints[i], None), parent |-> 0, cost |-> 0]>>,
                 <<[cost |-> 0, index |-> 1]>>, <<>>)
\* The ids that the connections name.
GraphIds == UNION {{history.base[i].from, history.base[i].to} : i \in DOMAIN history.base}

\* C28: build ends with a result on graphs with cycles, self-loops, parallel
\* edges and edges in both directions; each search that does not panic ends at
\* the target, which it does not expand, or when every node it found has been
\* expanded; no node is expanded a second time unless at a lower cost, so
\* that a search expands no more nodes than the graph has.
C28_SearchEnds ==
    Built =>
        /\ path.status \in {"Some", "None", "panic"}
        /\ \A i \in 1 .. (Len(pb[1].waypoints) - 1) :
               LET r == Search(i) IN
               ~r.panic =>
                   LET log == r.value.expanded
                       parents == r.value.parents
                       reached == r.value.target_reached
                   IN  /\ \A j, k \in DOMAIN log :
                              j < k /\ log[j].id = log[k].id => log[k].cost < log[j].cost
                       /\ Len(log) <= Cardinality(GraphIds \cup {pb[1].waypoints[i]})
                       /\ reached # 0 =>
                              /\ parents[reached].node.id = pb[1].waypoints[i + 1]
                              /\ \A j \in DOMAIN log : log[j].id # pb[1].waypoints[i + 1]
                       /\ reached = 0 =>
                              /\ {parents[j].node.id : j \in DOMAIN parents}
                                     = {log[j].id : j \in DOMAIN log}
                              /\ path.status # "Some"

\* A path from 1 to 3 and back to 1 on the graph with both self-loops, the
\* parallel edges, the edges in both directions and the cycle, whose first
\* search expanded 1 and 2.
C28_Witness ==
    /\ Returned
    /\ pb[1].waypoints = <<1, 3, 1>>
    /\ Len(history.base) >= 7
    /\ \A i \in 1 .. 7 : history.base[i] = GraphConnections[i]
    /\ Len(Search(1).value.expanded) = 2
    /\ Path_jumps(path) = 3

----------------------------------------------------------------------------
(* The Path's own cursor *)

\* C29: the Path's own next() and the iterators of iter() and systems() keep
\* cursors of their own: wherever the Path's cursor is, also past the end,
\* every iterator of iter() yields the elements from the first on and all of
\* them before None, systems() yields every system of the path, and the
\* Path's own next() returns the element at its own cursor, wherever the
\* iterators are.
C29_OwnCursorApart ==
    /\ path.cur <= Len(path.path)
    /\ \A k \in DOMAIN iters :
           /\ ~iters[k].panicked
           /\ iters[k].yielded = SubSeq(Elements(path.path), 1, iters[k].cur)
           /\ Len(iters[k].yielded) = iters[k].cur
           /\ iters[k].ended => iters[k].yielded = Elements(path.path)
    /\ query # None /\ query[1].op = "next" =>
           /\ ~query[1].result.panic
           /\ query[1].result.value =
                  IF query[1].cur < Len(path.path)
                  THEN Some(Elements(path.path)[query[1].cur + 1])
                  ELSE None
           /\ path.cur = IF query[1].cur < Len(path.path) THEN query[1].cur + 1
                         ELSE query[1].cur
    /\ query # None /\ query[1].op = "systems" =>
           /\ ~query[1].result.panic
           /\ query[1].result.value =
                  [i \in DOMAIN SystemBearing(path.path) |->
                      PathSystems[RecordOf(SystemBearing(path.path)[i].id)]]

\* A path of two jumps whose own next() has returned None: an iterator made
\* after that has yielded all five elements, another made when the own cursor
\* was at 2 is part way, and the own next() still returns None.
C29_Witness ==
    /\ Len(iters) = 2
    /\ Path_jumps(path) = 2
    /\ path.cur = Len(path.path)
    /\ query # None /\ query[1].op = "next" /\ query[1].result = Ok(None)
    /\ iters[1].made_at = 2
    /\ iters[1].cur = 1
    /\ iters[2].made_at = Len(path.path)
    /\ iters[2].ended
    /\ Len(iters[2].yielded) = 5

============================================================================
